---- MODULE Spec2Model ----
(***************************************************************************)
(* Model of the f1-2d-replay derivation pipeline:                          *)
(*   - the Step 5 position resampler of generate_static.main,              *)
(*   - extract_track_outline,                                              *)
(*   - compute_insights,                                                   *)
(*   - extract_pit_lane_path.                                              *)
(* Times of the resampler are integers in centiseconds (the code rounds    *)
(* every raw timestamp to two decimals); raw dates are in milliseconds.    *)
(* Lap durations and dates of the outline extractor are in tenths of a     *)
(* second.                                                                 *)
(***************************************************************************)
EXTENDS Integers, Sequences, FiniteSets, TLC

VARIABLES
    \* ---- Step 5 resampler (generate_static.main) ----
    ts, xs, ys,          \* race-relative raw arrays of the driver being processed
    positions,           \* positions[snum] of that driver, Unset until assigned
    rpc,                 \* position in Step 5: "convert" | "resampled" | "skipped"
    \* ---- extract_track_outline ----
    laps_data,           \* argument laps_data
    location_samples,    \* argument location_samples
    best_lap,            \* local best_lap, Unset until selected
    track,               \* the returned outline, Unset until the function returns
    opc,                 \* "call" | "selected" | "returned"
    \* ---- compute_insights ----
    ln,                  \* lap number of the last processed lap group, 0 before the loop
    lap_group,           \* by_lap[ln] of the last processed lap
    rc_events,           \* rc_by_lap.get(ln, []) of the last processed lap
    prev_positions,      \* local prev_positions (driver -> position)
    before_positions,    \* prev_positions as it was when lap ln began
    events,              \* local events of lap ln in emission order (before the sort)
    insights,            \* the returned mapping lap number -> stored list
    \* ---- extract_pit_lane_path ----
    pit_data,            \* argument pit_data
    pit_samples,         \* argument location_samples
    track_pts,           \* zip(track_x, track_y) of the arguments track_x, track_y
    raw_path,            \* local raw_path, as (x, y) pairs
    pit_lane_path,       \* the returned path, Unset until the function returns
    ppc,                  \* "call" | "returned"
    \* ---- compute_track_rotation ----
    rot_x, rot_y,        \* arguments track_x, track_y
    rot_reads,           \* indices of the outline points the call has read
    rotation,            \* the returned angle in hundredths of a degree, Unset until returned
    rotpc,                \* "call" | "returned"
    \* ---- server.py: STATE, the loader thread and the request handlers ----
    status,              \* STATE["status"]
    progress,            \* STATE["progress"]
    message,             \* STATE["message"]
    data,                \* STATE["data"], Unset while it is None
    lpc,                 \* position of the loader thread in load_race_data
    lstage,              \* number of the loading stage the loader is in
    hpc,                 \* position of each request handler
    hroute,              \* the route each handler serves
    hseen,               \* the status each handler read in its if-test
    hresp,                \* the response of each handler, Unset until it returns
    \* ---- generate_static.main: fetch stages and artifact writes ----
    mpc,                 \* the stage main() is at
    fetched,             \* the OpenF1 endpoints whose bulk request has returned
    has_meeting_key,     \* session.get("meeting_key") is truthy
    has_lap1,            \* all_laps holds a lap 1 with a date_start
    loc_todo,            \* drivers whose location request is still to come
    located,             \* drivers in all_location_by_driver
    mv,                  \* the multiviewer request: "untried" | "skipped" | "got" | "failed"
    written,             \* the artifacts written so far
    outcome,             \* "running" | "done" | "aborted" | "crashed"
    failure,              \* the upstream failure that ended the run, "none" if none
    \* ---- _scrub / _safe_json ----
    obj,                 \* the payload handed to _safe_json
    scrubbed,            \* _scrub(obj), Unset until computed
    serialized,          \* the tokens of json.dumps(_scrub(obj)), Unset until computed
    scpc,                 \* "call" | "returned"
    \* ---- get_track_status_for_lap ----
    all_rc,              \* the race-control messages, in the order the source gave them
    status_lap,          \* argument lap_number
    lap_status,          \* the returned track_status code, Unset until returned
    tspc,                 \* "call" | "returned"
    \* ---- Steps 9-15 of generate_static.main: lap records and their insights ----
    all_laps,            \* the lap records of the source, in the order it gave them
    all_stints,          \* the stint records of the source
    all_pits,            \* the pit records of the source
    lap_i,               \* index into all_laps of the next record of the Step 13 loop
    driver_best_times,   \* local driver_best_times (driver -> lap time)
    laps_list,           \* local laps_list
    run_insights,        \* insights of Step 15, Unset until computed
    apc,                  \* "assemble" | "done"
    \* ---- compute_insights over several laps: the positions each lap recorded ----
    position_log         \* history: [lap, positions] of every processed lap group, oldest first

resampleVars == <<ts, xs, ys, positions, rpc>>
outlineVars  == <<laps_data, location_samples, best_lap, track, opc>>
insightVars  == <<ln, lap_group, rc_events, prev_positions, before_positions, events, insights>>
pitVars      == <<pit_data, pit_samples, track_pts, raw_path, pit_lane_path, ppc>>
rotationVars == <<rot_x, rot_y, rot_reads, rotation, rotpc>>
serverVars == <<status, progress, message, data, lpc, lstage, hpc, hroute, hseen, hresp>>
mainVars == <<mpc, fetched, has_meeting_key, has_lap1, loc_todo, located, mv, written, outcome, failure>>
scrubVars == <<obj, scrubbed, serialized, scpc>>
trackStatusVars == <<all_rc, status_lap, lap_status, tspc>>
assembleVars == <<all_laps, all_stints, all_pits, lap_i, driver_best_times, laps_list, run_insights, apc>>
carryVars == <<position_log>>
vars == <<resampleVars, outlineVars, insightVars, pitVars, rotationVars, serverVars, mainVars, scrubVars, trackStatusVars, assembleVars, carryVars>>

\* What the actions of one component leave alone: the other components.
besideResample == <<outlineVars, insightVars, pitVars, rotationVars, serverVars, mainVars, scrubVars, trackStatusVars, assembleVars, carryVars>>
besideOutline  == <<resampleVars, insightVars, pitVars, rotationVars, serverVars, mainVars, scrubVars, trackStatusVars, assembleVars, carryVars>>
besideInsights == <<resampleVars, outlineVars, pitVars, rotationVars, serverVars, mainVars, scrubVars, trackStatusVars, assembleVars, carryVars>>
besidePit      == <<resampleVars, outlineVars, insightVars, rotationVars, serverVars, mainVars, scrubVars, trackStatusVars, assembleVars, carryVars>>
besideRotation == <<resampleVars, outlineVars, insightVars, pitVars, serverVars, mainVars, scrubVars, trackStatusVars, assembleVars, carryVars>>
besideServer == <<resampleVars, outlineVars, insightVars, pitVars, rotationVars, mainVars, scrubVars, trackStatusVars, assembleVars, carryVars>>
besideMain == <<resampleVars, outlineVars, insightVars, pitVars, rotationVars, serverVars, scrubVars, trackStatusVars, assembleVars, carryVars>>
besideScrub == <<resampleVars, outlineVars, insightVars, pitVars, rotationVars, serverVars, mainVars, trackStatusVars, assembleVars, carryVars>>
besideTrackStatus == <<resampleVars, outlineVars, insightVars, pitVars, rotationVars, serverVars, mainVars, scrubVars, assembleVars, carryVars>>
besideAssemble == <<resampleVars, outlineVars, insightVars, pitVars, rotationVars, serverVars, mainVars, scrubVars, trackStatusVars, carryVars>>
besideCarry == <<resampleVars, outlineVars, insightVars, pitVars, rotationVars, serverVars, mainVars, scrubVars, trackStatusVars, assembleVars>>

\* Python's None in a numeric field.  Every number the model uses for a time,
\* duration or position is >= 0 (raw dates excepted, which are never None).
None == -1

\* A local or result that is not assigned yet is the empty sequence; once
\* assigned it is the one-element sequence of its value.
Unset == <<>>

Min(a, b) == IF a <= b THEN a ELSE b

(***************************************************************************)
(* Step 5 of generate_static.main: conversion to race-relative time and    *)
(* resampling at RESAMPLE_DT.                                              *)
(***************************************************************************)

\* Bound: number of raw location samples of the driver.
MaxSamples == 3

\* RESAMPLE_DT = 0.25 s, in centiseconds.
RESAMPLE_DT == 25

\* Raw sample dates in milliseconds after race_start (negative: pre-race).
RawMillis == {-40, 3, 68, 72, 250, 318, 571, 582}

\* Raw coordinates (x, y) of a location sample.
RawXY == {<<0, 0>>, <<100, -40>>}

\* Python round() of the rational n/d to an integer: round half to even.
RoundHalfEven(n, d) ==
    LET nn == IF d < 0 THEN -n ELSE n
        dd == IF d < 0 THEN -d ELSE d
        q  == nn \div dd
        r  == nn % dd
    IN  IF 2 * r < dd THEN q
        ELSE IF 2 * r > dd THEN q + 1
        ELSE IF q % 2 = 0 THEN q ELSE q + 1

\* round(t, 2) of a time given in milliseconds, as centiseconds.
Round2(ms) == RoundHalfEven(ms, 10)

(* t_cursor is a binary64 float: ts[0] plus k additions of 0.25.  The raw    *)
(* timestamps and round(t_cursor, 2) are the doubles nearest to a two-decimal *)
(* value.  For the start values the model uses, these are the (start, k) at  *)
(* which the accumulated t_cursor is one ulp above (CursorAbove) or below    *)
(* (CursorBelow) the double nearest to start + 0.25k; elsewhere they agree.  *)
(* E.g. 0.07 + 0.25 + 0.25 = 0.5700000000000001 > 0.57.                      *)
CursorAbove == {<<7, 2>>, <<7, 3>>, <<32, 1>>, <<32, 2>>}
CursorBelow == {<<57, 2>>, <<57, 3>>}

CursorDrift(start, k) ==
    IF <<start, k>> \in CursorAbove THEN 1
    ELSE IF <<start, k>> \in CursorBelow THEN -1
    ELSE 0

\* The two-decimal value of t_cursor after k additions.
Cursor(start, k) == start + k * RESAMPLE_DT

\* t_cursor <= t_end
CursorLeq(start, k, t_end) ==
    \/ Cursor(start, k) < t_end
    \/ Cursor(start, k) = t_end /\ CursorDrift(start, k) <= 0

\* ts[j] < t_cursor
RawBelowCursor(t, start, k) ==
    \/ t < Cursor(start, k)
    \/ t = Cursor(start, k) /\ CursorDrift(start, k) > 0

\* The inner loop as a single test: j advances by at most one per grid point.
AdvanceJOnce(tt, jj, start, k) ==
    IF jj < Len(tt) /\ RawBelowCursor(tt[jj], start, k) THEN jj + 1 ELSE jj

\* The inner while loop: advance j while j < len(ts) - 1 and ts[j] < t_cursor.
\* Indices are 1-based here: Python's j is jj - 1.
RECURSIVE AdvanceJ(_, _, _, _)
AdvanceJ(tt, jj, start, k) ==
    IF jj < Len(tt) /\ RawBelowCursor(tt[jj], start, k)
    THEN AdvanceJ(tt, jj + 1, start, k)
    ELSE jj

\* Interpolate with the two bracketing samples exchanged.
InterpolateSwapped(tt, aa, jj, start, k) ==
    LET t0 == tt[jj - 1]
        t1 == tt[jj]
    IN  IF t1 = t0 THEN aa[jj]
        ELSE RoundHalfEven(aa[jj] * (t1 - t0)
                             + (Cursor(start, k) - t0) * (aa[jj - 1] - aa[jj]),
                           t1 - t0)

\* round(a[j-1] + frac * (a[j] - a[j-1])) with
\* frac = (t_cursor - t0) / (t1 - t0) if t1 != t0 else 0.
Interpolate(tt, aa, jj, start, k) ==
    LET t0 == tt[jj - 1]
        t1 == tt[jj]
    IN  IF t1 = t0 THEN aa[jj - 1]
        ELSE RoundHalfEven(aa[jj - 1] * (t1 - t0)
                             + (Cursor(start, k) - t0) * (aa[jj] - aa[jj - 1]),
                           t1 - t0)

\* The outer while loop, from its k-th iteration on, with index jj and the
\* output arrays built so far.
RECURSIVE ResampleLoop(_, _, _, _, _, _)
ResampleLoop(tt, xx, yy, k, jj, out) ==
    IF ~CursorLeq(tt[1], k, tt[Len(tt)]) THEN out
    ELSE LET j2 == AdvanceJ(tt, jj, tt[1], k)
             tc == Cursor(tt[1], k)
             nx == IF j2 = 1 THEN xx[1] ELSE Interpolate(tt, xx, j2, tt[1], k)
             ny == IF j2 = 1 THEN yy[1] ELSE Interpolate(tt, yy, j2, tt[1], k)
         IN  ResampleLoop(tt, xx, yy, k + 1, j2,
                          [t |-> Append(out.t, tc),
                           x |-> Append(out.x, nx),
                           y |-> Append(out.y, ny)])

\* The resampled trace {'t': ..., 'x': ..., 'y': ...} of a non-empty raw trace.
Resample(tt, xx, yy) ==
    ResampleLoop(tt, xx, yy, 0, 1, [t |-> <<>>, x |-> <<>>, y |-> <<>>])

InitResample ==
    /\ ts = <<>> /\ xs = <<>> /\ ys = <<>>
    /\ positions = Unset
    /\ rpc = "convert"
    \* the other components rest
    /\ laps_data = <<>> /\ location_samples = <<>> /\ best_lap = Unset
    /\ track = Unset /\ opc = "idle"
    /\ ln = 0 /\ lap_group = <<>> /\ rc_events = <<>> /\ prev_positions = <<>>
    /\ before_positions = <<>> /\ events = <<>> /\ insights = <<>>
    /\ pit_data = <<>> /\ pit_samples = <<>> /\ track_pts = <<>> /\ raw_path = <<>>
    /\ pit_lane_path = Unset /\ ppc = "idle"
    /\ rot_x = <<>> /\ rot_y = <<>> /\ rot_reads = {} /\ rotation = Unset /\ rotpc = "idle"
    /\ status = "idle" /\ progress = 0 /\ message = "" /\ data = Unset
    /\ lpc = "off" /\ lstage = 0 /\ hpc = <<>> /\ hroute = <<>> /\ hseen = <<>> /\ hresp = <<>>
    /\ mpc = "off" /\ fetched = {} /\ has_meeting_key = FALSE /\ has_lap1 = FALSE
    /\ loc_todo = 0 /\ located = {} /\ mv = "untried" /\ written = {}
    /\ outcome = "idle" /\ failure = "none"
    /\ obj = <<>> /\ scrubbed = Unset /\ serialized = Unset /\ scpc = "idle"
    /\ all_rc = <<>> /\ status_lap = 0 /\ lap_status = Unset /\ tspc = "idle"
    /\ all_laps = <<>> /\ all_stints = <<>> /\ all_pits = <<>> /\ lap_i = 0
    /\ driver_best_times = <<>> /\ laps_list = <<>> /\ run_insights = Unset /\ apc = "idle"
    /\ position_log = <<>>

\* One iteration of "for loc in locs": a sample before the race start is
\* skipped, any other is appended with its time rounded to two decimals.
ConvertLoc ==
    /\ rpc = "convert"
    /\ Len(ts) < MaxSamples
    /\ \E ms \in RawMillis, xy \in RawXY :
          IF ms < 0
          THEN UNCHANGED <<ts, xs, ys>>
          ELSE /\ ts' = Append(ts, Round2(ms))
               /\ xs' = Append(xs, xy[1])
               /\ ys' = Append(ys, xy[2])
    /\ UNCHANGED <<positions, rpc, besideResample>>

\* "if not ts: continue": the driver gets no entry in positions.
SkipDriver ==
    /\ rpc = "convert"
    /\ ts = <<>>
    /\ rpc' = "skipped"
    /\ UNCHANGED <<ts, xs, ys, positions, besideResample>>

\* The resampling loop and the assignment positions[snum] = {...}.
ResampleDriver ==
    /\ rpc = "convert"
    /\ ts # <<>>
    /\ positions' = <<Resample(ts, xs, ys)>>
    /\ rpc' = "resampled"
    /\ UNCHANGED <<ts, xs, ys, besideResample>>

NextResample == ConvertLoc \/ SkipDriver \/ ResampleDriver

SpecResample ==
    /\ InitResample
    /\ [][NextResample]_vars

(***************************************************************************)
(* extract_track_outline(location_samples, race_start, laps_data,          *)
(* driver_number).  Dates and durations are in tenths of a second.         *)
(***************************************************************************)

\* Bound: highest lap number of the outline driver in laps_data.
MaxLapNo == 5
\* Bound: number of location samples passed to extract_track_outline.
MaxOutlineSamples == 2

\* The outline driver (driver_numbers[0]) and another driver of the session.
OutlineDriver == 44
OtherDriver   == 1

\* race_start, as an absolute date.
RaceStart == 1000

\* to_seconds(parse_iso(s), ref): the date relative to the reference date.
to_seconds(date, ref) == date - ref

\* (lap_duration, is_pit_out_lap) of a lap record of the outline driver.
LapKinds == {<<None, FALSE>>, <<881, FALSE>>, <<890, FALSE>>, <<902, TRUE>>, <<850, TRUE>>}

\* A lap record; lap n starts 90 s after lap n - 1.
LapRecord(drv, n, kind) ==
    [driver_number |-> drv, lap_number |-> n, lap_duration |-> kind[1],
     is_pit_out_lap |-> kind[2], date_start |-> RaceStart + (n - 1) * 900]

\* laps_data: a fast clean lap of another driver, then laps 1..n of the
\* outline driver.
LapTables ==
    UNION {{<<LapRecord(OtherDriver, 5, <<800, FALSE>>)>>
              \o [n \in 1..m |-> LapRecord(OutlineDriver, n, kinds[n])] :
            kinds \in [1..m -> LapKinds]} : m \in 0..MaxLapNo}

\* The location samples of the outline driver that the input is drawn from.
OutlineSamples ==
    {[date |-> RaceStart + 2699, x |-> 10, y |-> 1],
     [date |-> RaceStart + 2700, x |-> 20, y |-> 2],
     [date |-> RaceStart + 3581, x |-> 30, y |-> 3],
     [date |-> RaceStart + 3582, x |-> 40, y |-> 4]}

SampleLists == UNION {[1..m -> OutlineSamples] : m \in 0..MaxOutlineSamples}

\* IsCleanLap with the lap-number test off by one (lap number >= 3).
IsCleanLapFrom3(l, driver_number) ==
    /\ l.driver_number = driver_number
    /\ l.lap_duration # None
    /\ l.is_pit_out_lap # TRUE
    /\ l.lap_number >= 3

\* The filter of lines 242-246: the driver's laps with a duration, not a
\* pit-out lap, lap number > 3.
IsCleanLap(l, driver_number) ==
    /\ l.driver_number = driver_number
    /\ l.lap_duration # None
    /\ l.is_pit_out_lap # TRUE
    /\ l.lap_number > 3

\* The fallback filter of lines 249-251: any lap of the driver with a duration.
IsTimedLap(l, driver_number) ==
    /\ l.driver_number = driver_number
    /\ l.lap_duration # None

\* list.sort(key=lap_duration): stable, ascending.
RECURSIVE InsertByDuration(_, _)
InsertByDuration(sorted, l) ==
    IF sorted = <<>> THEN <<l>>
    ELSE IF sorted[Len(sorted)].lap_duration <= l.lap_duration
         THEN Append(sorted, l)
         ELSE Append(InsertByDuration(SubSeq(sorted, 1, Len(sorted) - 1), l),
                     sorted[Len(sorted)])

RECURSIVE SortByDuration(_)
SortByDuration(s) ==
    IF s = <<>> THEN <<>>
    ELSE InsertByDuration(SortByDuration(SubSeq(s, 1, Len(s) - 1)), s[Len(s)])

\* DriverLaps without the fallback to any timed lap.
DriverLapsNoFallback(laps, driver_number) ==
    SelectSeq(laps, LAMBDA l : IsCleanLap(l, driver_number))

\* driver_laps after lines 242-251.
DriverLaps(laps, driver_number) ==
    LET clean == SelectSeq(laps, LAMBDA l : IsCleanLap(l, driver_number))
    IN  IF clean # <<>> THEN clean
        ELSE SelectSeq(laps, LAMBDA l : IsTimedLap(l, driver_number))

\* Lines 263-269: the samples of the window, in the order of location_samples.
WindowSamples(samples, lap_start_t, lap_end_t) ==
    SelectSeq(samples, LAMBDA loc :
        /\ lap_start_t <= to_seconds(loc.date, RaceStart)
        /\ to_seconds(loc.date, RaceStart) <= lap_end_t)

InitOutline ==
    /\ laps_data \in LapTables
    /\ location_samples \in SampleLists
    /\ best_lap = Unset
    /\ track = Unset
    /\ opc = "call"
    \* the other components rest
    /\ ts = <<>> /\ xs = <<>> /\ ys = <<>> /\ positions = Unset /\ rpc = "idle"
    /\ ln = 0 /\ lap_group = <<>> /\ rc_events = <<>> /\ prev_positions = <<>>
    /\ before_positions = <<>> /\ events = <<>> /\ insights = <<>>
    /\ pit_data = <<>> /\ pit_samples = <<>> /\ track_pts = <<>> /\ raw_path = <<>>
    /\ pit_lane_path = Unset /\ ppc = "idle"
    /\ rot_x = <<>> /\ rot_y = <<>> /\ rot_reads = {} /\ rotation = Unset /\ rotpc = "idle"
    /\ status = "idle" /\ progress = 0 /\ message = "" /\ data = Unset
    /\ lpc = "off" /\ lstage = 0 /\ hpc = <<>> /\ hroute = <<>> /\ hseen = <<>> /\ hresp = <<>>
    /\ mpc = "off" /\ fetched = {} /\ has_meeting_key = FALSE /\ has_lap1 = FALSE
    /\ loc_todo = 0 /\ located = {} /\ mv = "untried" /\ written = {}
    /\ outcome = "idle" /\ failure = "none"
    /\ obj = <<>> /\ scrubbed = Unset /\ serialized = Unset /\ scpc = "idle"
    /\ all_rc = <<>> /\ status_lap = 0 /\ lap_status = Unset /\ tspc = "idle"
    /\ all_laps = <<>> /\ all_stints = <<>> /\ all_pits = <<>> /\ lap_i = 0
    /\ driver_best_times = <<>> /\ laps_list = <<>> /\ run_insights = Unset /\ apc = "idle"
    /\ position_log = <<>>

\* The call extract_track_outline(location_samples, race_start, laps_data,
\* OutlineDriver), from entry to return.
ExtractTrackOutline ==
    /\ opc = "call"
    /\ LET driver_laps == DriverLaps(laps_data, OutlineDriver)
       IN  IF driver_laps = <<>>
           THEN /\ best_lap' = Unset
                /\ track' = <<[x |-> <<>>, y |-> <<>>]>>
           ELSE LET best        == SortByDuration(driver_laps)[1]
                    lap_start_t == to_seconds(best.date_start, RaceStart)
                    lap_end_t   == to_seconds(best.date_start, RaceStart)
                                     + best.lap_duration
                    win         == WindowSamples(location_samples, lap_start_t, lap_end_t)
                IN  /\ best_lap' = <<best>>
                    /\ track' = <<[x |-> [i \in 1..Len(win) |-> win[i].x],
                                   y |-> [i \in 1..Len(win) |-> win[i].y]]>>
    /\ opc' = "returned"
    /\ UNCHANGED <<laps_data, location_samples, besideOutline>>

NextOutline == ExtractTrackOutline

SpecOutline ==
    /\ InitOutline
    /\ [][NextOutline]_vars

(***************************************************************************)
(* compute_insights(laps, drivers, total_laps, race_control_events).       *)
(* Lap and sector times are in milliseconds.  Text is a sequence of        *)
(* string tokens, so that formatting a number produces its digits.         *)
(***************************************************************************)

\* Bound: highest lap number in the data.
MaxLapNumber == 2
\* Bound: number of race-control messages of one lap.
MaxRcPerLap == 2

\* Python's None in a string field.
NoneStr == "None"

\* The drivers table passed to compute_insights; driver "44" has no entry, so
\* its abbreviation and colour fall back to the defaults.
DriverIds == {"1", "44"}
drivers == [d \in {"1"} |-> [abbr |-> "VER", color |-> "#3671C6"]]

DriverAbbr(d)  == IF d \in DOMAIN drivers THEN drivers[d].abbr ELSE d
DriverColor(d) == IF d \in DOMAIN drivers THEN drivers[d].color ELSE "#888"

\* str(n) of a natural number, as its decimal digits.
DigitChar == <<"0", "1", "2", "3", "4", "5", "6", "7", "8", "9">>
RECURSIVE Digits(_)
Digits(n) == IF n < 10 THEN <<DigitChar[n + 1]>>
             ELSE Digits(n \div 10) \o <<DigitChar[(n % 10) + 1]>>

\* n formatted with at least w digits, zero padded.
RECURSIVE Padded(_, _)
Padded(n, w) == IF Len(Digits(n)) >= w THEN Digits(n)
                ELSE <<"0">> \o (IF w > 1 THEN Padded(n, w - 1) ELSE <<>>)

\* fmt_time(seconds): M:SS.mmm from one minute on, S.mmm below, a dash for None.
fmt_time(ms) ==
    IF ms = None THEN <<"EM DASH">>
    ELSE LET m == ms \div 60000
             s == ms % 60000
         IN  IF m > 0
             THEN Digits(m) \o <<":">> \o Padded(s \div 1000, 2) \o <<".">>
                    \o Padded(s % 1000, 3)
             ELSE Digits(s \div 1000) \o <<".">> \o Padded(s % 1000, 3)

\* Truth value of an optional number in a Python condition: None and 0 are false.
Truthy(v) == v # None /\ v # 0

\* Python dicts, as sequences of [k, v] entries in insertion order.
DictHas(d, k) == \E i \in 1..Len(d) : d[i].k = k
DictGet(d, k) == d[CHOOSE i \in 1..Len(d) : d[i].k = k].v
DictPut(d, k, v) ==
    IF DictHas(d, k)
    THEN [i \in 1..Len(d) |-> IF d[i].k = k THEN [k |-> k, v |-> v] ELSE d[i]]
    ELSE Append(d, [k |-> k, v |-> v])

\* msg.upper(), word by word.
UpperWord(w) ==
    CASE w = "Safety" -> "SAFETY"
      [] w = "Car"    -> "CAR"
      [] w = "in"     -> "IN"
      [] w = "this"   -> "THIS"
      [] w = "lap"    -> "LAP"
      [] OTHER        -> w
Upper(msg) == [i \in 1..Len(msg) |-> UpperWord(msg[i])]

\* 'needle' in msg, for a needle of whole words.
Contains(msg, needle) ==
    \E i \in 0..(Len(msg) - Len(needle)) :
        \A h \in 1..Len(needle) : msg[i + h] = needle[h]

\* (rc.get('message') or '').upper(); a missing message is the empty text.
RcText(rc) == Upper(rc.message)

IsScMessage(rc)  == Contains(RcText(rc), <<"SAFETY", "CAR">>)
                       /\ ~Contains(RcText(rc), <<"VIRTUAL">>)
IsVscMessage(rc) == Contains(RcText(rc), <<"VIRTUAL", "SAFETY", "CAR">>)
IsYellowFlag(rc) == rc.flag \in {"YELLOW", "DOUBLE YELLOW"}

\* StatusEvents with the virtual safety car tested before the safety car.
StatusEventsVscFirst(group, rcs) ==
    LET has_sc     == \E i \in 1..Len(rcs) : IsScMessage(rcs[i])
        has_vsc    == \E i \in 1..Len(rcs) : IsVscMessage(rcs[i])
        has_yellow == \E i \in 1..Len(rcs) : IsYellowFlag(rcs[i])
        statuses   == {group[i].track_status : i \in 1..Len(group)}
    IN  IF has_vsc \/ "5" \in statuses
        THEN <<[type |-> "vsc", icon |-> "yellow circle", title |-> <<"Virtual Safety Car">>,
                detail |-> <<>>, driver |-> NoneStr, priority |-> 9]>>
        ELSE IF has_sc \/ "4" \in statuses
        THEN <<[type |-> "safety_car", icon |-> "car", title |-> <<"Safety Car deployed">>,
                detail |-> <<>>, driver |-> NoneStr, priority |-> 10]>>
        ELSE IF has_yellow \/ "2" \in statuses \/ "3" \in statuses
        THEN <<[type |-> "yellow", icon |-> "yellow circle", title |-> <<"Yellow Flag">>,
                detail |-> <<>>, driver |-> NoneStr, priority |-> 8]>>
        ELSE <<>>

\* Lines 144-158: the track-status event of the lap, if any.
StatusEvents(group, rcs) ==
    LET has_sc     == \E i \in 1..Len(rcs) : IsScMessage(rcs[i])
        has_vsc    == \E i \in 1..Len(rcs) : IsVscMessage(rcs[i])
        has_yellow == \E i \in 1..Len(rcs) : IsYellowFlag(rcs[i])
        statuses   == {group[i].track_status : i \in 1..Len(group)}
    IN  IF has_sc \/ "4" \in statuses
        THEN <<[type |-> "safety_car", icon |-> "car", title |-> <<"Safety Car deployed">>,
                detail |-> <<>>, driver |-> NoneStr, priority |-> 10]>>
        ELSE IF has_vsc \/ "5" \in statuses
        THEN <<[type |-> "vsc", icon |-> "yellow circle", title |-> <<"Virtual Safety Car">>,
                detail |-> <<>>, driver |-> NoneStr, priority |-> 9]>>
        ELSE IF has_yellow \/ "2" \in statuses \/ "3" \in statuses
        THEN <<[type |-> "yellow", icon |-> "yellow circle", title |-> <<"Yellow Flag">>,
                detail |-> <<>>, driver |-> NoneStr, priority |-> 8]>>
        ELSE <<>>

\* min(seq, key): the first element with the least key.
FirstMin(seq, Key(_)) ==
    seq[CHOOSE i \in 1..Len(seq) :
            /\ \A h \in 1..Len(seq) : Key(seq[i]) <= Key(seq[h])
            /\ \A h \in 1..(i - 1) : Key(seq[h]) # Key(seq[i])]

DriverEvent(type, icon, title, detail, driver, priority) ==
    [type |-> type, icon |-> icon, title |-> title, detail |-> detail,
     driver |-> driver, color |-> DriverColor(driver), priority |-> priority]

\* valid = [l for l in lap_group if l.get('lap_time')]
ValidLaps(group) == SelectSeq(group, LAMBDA l : Truthy(l.lap_time))

\* Lines 160-170: the fastest lap of the lap number.
FastestEvents(group) ==
    IF ValidLaps(group) = <<>> THEN <<>>
    ELSE LET fastest == FirstMin(ValidLaps(group), LAMBDA l : l.lap_time)
         IN  <<DriverEvent("fastest_lap", "zap",
                           <<DriverAbbr(fastest.driver), " fastest">>,
                           fmt_time(fastest.lap_time), fastest.driver, 7)>>

\* The events of the records of a group that satisfy Test, in record order.
PerRecord(group, Test(_), Make(_)) ==
    LET chosen == SelectSeq(group, Test)
    IN  [i \in 1..Len(chosen) |-> Make(chosen[i])]

\* Lines 172-181: personal bests.
PersonalBestEvents(group) ==
    PerRecord(group,
              LAMBDA l : l.is_pb /\ Truthy(l.lap_time),
              LAMBDA l : DriverEvent("personal_best", "purple circle",
                                     <<DriverAbbr(l.driver), " personal best">>,
                                     fmt_time(l.lap_time), l.driver, 6))

\* Lines 183-193: pit stops.
PitStopEvents(group) ==
    PerRecord(group,
              LAMBDA l : l.pit_in # None,
              LAMBDA l : DriverEvent("pit_stop", "wrench",
                                     <<DriverAbbr(l.driver), " pits">>,
                                     <<"-> ", l.compound>>, l.driver, 5))

\* Lines 195-198: cur_positions of the lap group.
RECURSIVE CurPositions(_)
CurPositions(group) ==
    IF group = <<>> THEN <<>>
    ELSE LET l    == group[Len(group)]
             rest == CurPositions(SubSeq(group, 1, Len(group) - 1))
         IN  IF Truthy(l.position) /\ l.driver # ""
             THEN DictPut(rest, l.driver, l.position)
             ELSE rest

Abs(n) == IF n < 0 THEN -n ELSE n

\* PositionChangeEvents with the sign of delta reversed (cur - prev).
PositionChangeEventsFlipped(cur, prev) ==
    PerRecord(cur,
              LAMBDA e : DictHas(prev, e.k) /\ Abs(e.v - DictGet(prev, e.k)) >= 2,
              LAMBDA e :
                  LET delta     == e.v - DictGet(prev, e.k)
                      direction == IF delta > 0 THEN "UP TRIANGLE" ELSE "DOWN TRIANGLE"
                  IN  DriverEvent("position_change", direction,
                                  <<DriverAbbr(e.k), " ", direction, " ">>
                                     \o Digits(Abs(delta)) \o <<" positions">>,
                                  <<"P">> \o Digits(e.v), e.k, 4))

\* Lines 200-213: position changes of at least two places against prev.
PositionChangeEvents(cur, prev) ==
    PerRecord(cur,
              LAMBDA e : DictHas(prev, e.k) /\ Abs(DictGet(prev, e.k) - e.v) >= 2,
              LAMBDA e :
                  LET delta     == DictGet(prev, e.k) - e.v
                      direction == IF delta > 0 THEN "UP TRIANGLE" ELSE "DOWN TRIANGLE"
                  IN  DriverEvent("position_change", direction,
                                  <<DriverAbbr(e.k), " ", direction, " ">>
                                     \o Digits(Abs(delta)) \o <<" positions">>,
                                  <<"P">> \o Digits(e.v), e.k, 4))

SectorValue(l, key) ==
    CASE key = "sector1" -> l.sector1
      [] key = "sector2" -> l.sector2
      [] key = "sector3" -> l.sector3

\* Lines 219-229: the best time of one sector.
BestSectorEvents(group, sector, key) ==
    LET sect_valid == SelectSeq(group, LAMBDA l : Truthy(SectorValue(l, key)))
    IN  IF sect_valid = <<>> THEN <<>>
        ELSE LET best == FirstMin(sect_valid, LAMBDA l : SectorValue(l, key))
             IN  <<DriverEvent("best_sector", "pin",
                               <<DriverAbbr(best.driver), " best ", sector>>,
                               fmt_time(SectorValue(best, key)), best.driver, 3)>>

\* Lines 217-229: sector records, only when some record has a lap time.
SectorEvents(group) ==
    IF ValidLaps(group) = <<>> THEN <<>>
    ELSE BestSectorEvents(group, "S1", "sector1")
           \o BestSectorEvents(group, "S2", "sector2")
           \o BestSectorEvents(group, "S3", "sector3")

\* The events list of one lap at line 230, in emission order.
EmittedEvents(group, rcs, prev) ==
    StatusEvents(group, rcs)
      \o FastestEvents(group)
      \o PersonalBestEvents(group)
      \o PitStopEvents(group)
      \o PositionChangeEvents(CurPositions(group), prev)
      \o SectorEvents(group)

\* SortByPriority without reverse=True: stable, ascending.
RECURSIVE InsertByPriorityAscending(_, _)
InsertByPriorityAscending(sorted, e) ==
    IF sorted = <<>> THEN <<e>>
    ELSE IF sorted[Len(sorted)].priority <= e.priority
         THEN Append(sorted, e)
         ELSE Append(InsertByPriorityAscending(SubSeq(sorted, 1, Len(sorted) - 1), e),
                     sorted[Len(sorted)])

RECURSIVE SortByPriorityAscending(_)
SortByPriorityAscending(s) ==
    IF s = <<>> THEN <<>>
    ELSE InsertByPriorityAscending(SortByPriorityAscending(SubSeq(s, 1, Len(s) - 1)),
                                   s[Len(s)])

\* events.sort(key=priority, reverse=True): stable, descending.
RECURSIVE InsertByPriority(_, _)
InsertByPriority(sorted, e) ==
    IF sorted = <<>> THEN <<e>>
    ELSE IF sorted[Len(sorted)].priority >= e.priority
         THEN Append(sorted, e)
         ELSE Append(InsertByPriority(SubSeq(sorted, 1, Len(sorted) - 1), e),
                     sorted[Len(sorted)])

RECURSIVE SortByPriority(_)
SortByPriority(s) ==
    IF s = <<>> THEN <<>>
    ELSE InsertByPriority(SortByPriority(SubSeq(s, 1, Len(s) - 1)), s[Len(s)])

\* events[:8]
MaxStored == 8
Stored(sorted) == SubSeq(sorted, 1, Min(MaxStored, Len(sorted)))

\* ---- inputs of compute_insights ----

\* A lap record with nothing recorded but the driver.
PlainLap(d) ==
    [driver |-> d, lap |-> 0, lap_time |-> None, sector1 |-> None, sector2 |-> None,
     sector3 |-> None, compound |-> "UNKNOWN", pit_in |-> None, position |-> None,
     is_pb |-> FALSE, track_status |-> "1"]

TrackStatusCodes == {"1", "2", "3", "4", "5"}

\* Race-control messages of a lap: message words (empty for None) and flag.
RcMessages ==
    {[message |-> <<"SAFETY", "CAR", "DEPLOYED">>, flag |-> NoneStr],
     [message |-> <<"Safety", "Car", "in", "this", "lap">>, flag |-> NoneStr],
     [message |-> <<"VIRTUAL", "SAFETY", "CAR", "DEPLOYED">>, flag |-> NoneStr],
     [message |-> <<"YELLOW", "IN", "TRACK", "SECTOR", "3">>, flag |-> "YELLOW"],
     [message |-> <<>>, flag |-> "DOUBLE YELLOW"],
     [message |-> <<"GREEN", "LIGHT">>, flag |-> "GREEN"]}

RcLists == UNION {[1..m -> RcMessages] : m \in 0..MaxRcPerLap}

\* Lap groups that differ in the coded track status only: one record with
\* any code, or two records with different codes.
StatusPairs == {<<"5", "4">>, <<"2", "5">>, <<"1", "3">>, <<"4", "1">>}
StatusGroups ==
    {<<[PlainLap("1") EXCEPT !.track_status = s]>> : s \in TrackStatusCodes}
      \cup {<<[PlainLap("1") EXCEPT !.track_status = st[1]],
              [PlainLap("44") EXCEPT !.track_status = st[2]]>> : st \in StatusPairs}

\* Lap groups that differ in the running positions only; a driver may be
\* absent from the lap or have no position.
PositionValues == {None, 1, 2, 3, 4}
PositionGroups ==
    {<<[PlainLap(d) EXCEPT !.position = p]>> : d \in DriverIds, p \in PositionValues}
      \cup {<<[PlainLap(de[1]) EXCEPT !.position = p],
              [PlainLap(de[2]) EXCEPT !.position = q]>> :
            de \in {pr \in DriverIds \X DriverIds : pr[1] # pr[2]},
            p \in PositionValues, q \in PositionValues}

\* Lap groups with timing, personal bests, pit stops and sector times.
TimedLap(time, pb, pit, sectors) ==
    [PlainLap("1") EXCEPT !.lap_time = time, !.is_pb = pb, !.pit_in = pit,
                          !.sector1 = sectors[1], !.sector2 = sectors[2],
                          !.sector3 = sectors[3], !.compound = "HARD", !.position = 1]
BusyLap44 ==
    [PlainLap("44") EXCEPT !.lap_time = 89000, !.is_pb = TRUE, !.pit_in = 3600000,
                           !.sector1 = 29500, !.sector2 = 29500, !.sector3 = None,
                           !.compound = "SOFT", !.position = 3]
TimedLaps1 ==
    {TimedLap(time, pb, pit, sectors) :
        time \in {None, 88100, 90200}, pb \in BOOLEAN, pit \in {None, 3605500},
        sectors \in {<<None, None, None>>, <<29000, 29500, 29600>>}}
TimedGroups == {<<l>> : l \in TimedLaps1} \cup {<<l, BusyLap44>> : l \in TimedLaps1}

\* The inputs one lap number can have: its lap group and its messages.
LapInputs ==
    (StatusGroups \X RcLists)
      \cup (PositionGroups \X {<<>>})
      \cup (TimedGroups \X {<<>>, <<[message |-> <<"SAFETY", "CAR", "DEPLOYED">>,
                                    flag |-> NoneStr]>>})

\* by_lap[n] and rc_by_lap[n]: the records carry their lap number.
WithLap(group, n) == [i \in 1..Len(group) |-> [group[i] EXCEPT !.lap = n]]
WithLapNumber(rcs, n) ==
    [i \in 1..Len(rcs) |-> [lap_number |-> n, message |-> rcs[i].message,
                            flag |-> rcs[i].flag]]

InitInsights ==
    /\ ln = 0
    /\ lap_group = <<>>
    /\ rc_events = <<>>
    /\ prev_positions = <<>>
    /\ before_positions = <<>>
    /\ events = <<>>
    /\ insights = <<>>
    \* the other components rest
    /\ ts = <<>> /\ xs = <<>> /\ ys = <<>> /\ positions = Unset /\ rpc = "idle"
    /\ laps_data = <<>> /\ location_samples = <<>> /\ best_lap = Unset
    /\ track = Unset /\ opc = "idle"
    /\ pit_data = <<>> /\ pit_samples = <<>> /\ track_pts = <<>> /\ raw_path = <<>>
    /\ pit_lane_path = Unset /\ ppc = "idle"
    /\ rot_x = <<>> /\ rot_y = <<>> /\ rot_reads = {} /\ rotation = Unset /\ rotpc = "idle"
    /\ status = "idle" /\ progress = 0 /\ message = "" /\ data = Unset
    /\ lpc = "off" /\ lstage = 0 /\ hpc = <<>> /\ hroute = <<>> /\ hseen = <<>> /\ hresp = <<>>
    /\ mpc = "off" /\ fetched = {} /\ has_meeting_key = FALSE /\ has_lap1 = FALSE
    /\ loc_todo = 0 /\ located = {} /\ mv = "untried" /\ written = {}
    /\ outcome = "idle" /\ failure = "none"
    /\ obj = <<>> /\ scrubbed = Unset /\ serialized = Unset /\ scpc = "idle"
    /\ all_rc = <<>> /\ status_lap = 0 /\ lap_status = Unset /\ tspc = "idle"
    /\ all_laps = <<>> /\ all_stints = <<>> /\ all_pits = <<>> /\ lap_i = 0
    /\ driver_best_times = <<>> /\ laps_list = <<>> /\ run_insights = Unset /\ apc = "idle"
    /\ position_log = <<>>

\* One iteration of "for ln in sorted(by_lap.keys())": the next lap number n
\* present in the data, its lap group and its race-control messages.
ProcessLap ==
    \E n \in (ln + 1)..MaxLapNumber, input \in LapInputs :
        LET group   == WithLap(input[1], n)
            rcs     == WithLapNumber(input[2], n)
            emitted == EmittedEvents(group, rcs, prev_positions)
        IN  /\ ln' = n
            /\ lap_group' = group
            /\ rc_events' = rcs
            /\ events' = emitted
            /\ insights' = DictPut(insights, Digits(n), Stored(SortByPriority(emitted)))
            /\ before_positions' = prev_positions
            /\ prev_positions' = CurPositions(group)
            /\ UNCHANGED besideInsights

NextInsights == ProcessLap

SpecInsights ==
    /\ InitInsights
    /\ [][NextInsights]_vars

(***************************************************************************)
(* extract_pit_lane_path(location_samples, race_start, pit_data,           *)
(* driver_number, track_x, track_y).  Dates and durations are in tenths of *)
(* a second; coordinates are integers, as the location feed delivers them. *)
(***************************************************************************)

\* Bound: number of location samples of the pitting driver.
MaxPitSamples == 3

\* driver_number of the call: the driver of the pit record main() picked.
PitDriver == 16

\* DEVIATION_THRESHOLD = 150 length units.
DEVIATION_THRESHOLD == 150

\* Date of the driver's pit record.
PitDate == RaceStart + 12000

\* Pit records.  lane_duration = None stands for a record without that key.
PitRecord(drv, date, lane) == [driver_number |-> drv, date |-> date, lane_duration |-> lane]

PitTables ==
    LET own30 == PitRecord(PitDriver, PitDate, None)
        own20 == PitRecord(PitDriver, PitDate, 200)
        other == PitRecord(OtherDriver, RaceStart + 5000, 250)
    IN  {<<>>, <<other>>, <<own30>>, <<other, own30>>, <<own20, own30>>, <<own30, own20>>}

\* Location samples of the driver around the pit stop.
PitSample(offset, x, y) == [date |-> PitDate + offset, x |-> x, y |-> y]

PitSamples ==
    {PitSample(-81, 0, 300), PitSample(-80, 0, 151), PitSample(100, 0, 150),
     PitSample(150, 100, 10), PitSample(280, 320, 90), PitSample(380, 50, 200),
     PitSample(381, 50, 400)}

RECURSIVE PitSampleListsOf(_)
PitSampleListsOf(n) ==
    IF n = 0 THEN {<<>>}
    ELSE PitSampleListsOf(n - 1)
           \cup {Append(l, smp) : l \in {h \in PitSampleListsOf(n - 1) : Len(h) = n - 1},
                                  smp \in PitSamples}

PitSampleLists == PitSampleListsOf(MaxPitSamples)

\* Track outlines handed to the extractor, as the list zip(track_x, track_y).
PitTracks ==
    {<<>>, <<<<0, 0>>>>, <<<<0, 0>>, <<100, 0>>, <<200, 0>>>>}

\* lane_duration = pit.get('lane_duration', 30)
LaneDuration(pit) == IF pit.lane_duration = None THEN 300 ELSE pit.lane_duration

\* driver_pits = [p for p in pit_data if p.get('driver_number') == driver_number]
DriverPits(pits, drv) == SelectSeq(pits, LAMBDA pr : pr.driver_number = drv)

\* The window test pit_start_t - 8 <= t <= pit_end_t + 8.
InPitWindow(loc, pit) ==
    LET t           == to_seconds(loc.date, RaceStart)
        pit_start_t == to_seconds(pit.date, RaceStart)
        pit_end_t   == pit_start_t + LaneDuration(pit)
    IN  pit_start_t - 80 <= t /\ t <= pit_end_t + 80

\* raw_path: the samples inside the window, in input order.
RawPath(samples, pit) == SelectSeq(samples, LAMBDA loc : InPitWindow(loc, pit))

\* d = (px - tx) ** 2 + (py - ty) ** 2
Dist2(px, py, pt) == (px - pt[1]) * (px - pt[1]) + (py - pt[2]) * (py - pt[2])

\* min_dist_to_track, squared: the smallest d over a non-empty track_pts.
MinDist2ToTrack(px, py, pts) ==
    CHOOSE d \in {Dist2(px, py, pts[i]) : i \in 1..Len(pts)} :
        \A i \in 1..Len(pts) : d <= Dist2(px, py, pts[i])

\* The test with >= in place of >.
DeviatesInclusive(px, py, pts) ==
    MinDist2ToTrack(px, py, pts) >= DEVIATION_THRESHOLD * DEVIATION_THRESHOLD

\* dist > DEVIATION_THRESHOLD with dist = math.sqrt(best).  best is an integer
\* and sqrt is exact at 150 * 150, so the test is best > 150 * 150.
Deviates(px, py, pts) ==
    MinDist2ToTrack(px, py, pts) > DEVIATION_THRESHOLD * DEVIATION_THRESHOLD

\* [[x, y], ...] of a list of samples.
AsPath(locs) == [i \in 1..Len(locs) |-> <<locs[i].x, locs[i].y>>]

InitPit ==
    /\ pit_data \in PitTables
    /\ pit_samples \in PitSampleLists
    /\ track_pts \in PitTracks
    /\ raw_path = <<>>
    /\ pit_lane_path = Unset
    /\ ppc = "call"
    \* the other components rest
    /\ ts = <<>> /\ xs = <<>> /\ ys = <<>> /\ positions = Unset /\ rpc = "idle"
    /\ laps_data = <<>> /\ location_samples = <<>> /\ best_lap = Unset
    /\ track = Unset /\ opc = "idle"
    /\ ln = 0 /\ lap_group = <<>> /\ rc_events = <<>> /\ prev_positions = <<>>
    /\ before_positions = <<>> /\ events = <<>> /\ insights = <<>>
    /\ rot_x = <<>> /\ rot_y = <<>> /\ rot_reads = {} /\ rotation = Unset /\ rotpc = "idle"
    /\ status = "idle" /\ progress = 0 /\ message = "" /\ data = Unset
    /\ lpc = "off" /\ lstage = 0 /\ hpc = <<>> /\ hroute = <<>> /\ hseen = <<>> /\ hresp = <<>>
    /\ mpc = "off" /\ fetched = {} /\ has_meeting_key = FALSE /\ has_lap1 = FALSE
    /\ loc_todo = 0 /\ located = {} /\ mv = "untried" /\ written = {}
    /\ outcome = "idle" /\ failure = "none"
    /\ obj = <<>> /\ scrubbed = Unset /\ serialized = Unset /\ scpc = "idle"
    /\ all_rc = <<>> /\ status_lap = 0 /\ lap_status = Unset /\ tspc = "idle"
    /\ all_laps = <<>> /\ all_stints = <<>> /\ all_pits = <<>> /\ lap_i = 0
    /\ driver_best_times = <<>> /\ laps_list = <<>> /\ run_insights = Unset /\ apc = "idle"
    /\ position_log = <<>>

\* The call extract_pit_lane_path(pit_samples, race_start, pit_data, PitDriver,
\* track_x, track_y), from entry to return.
ExtractPitLanePath ==
    /\ ppc = "call"
    /\ LET driver_pits == DriverPits(pit_data, PitDriver)
       IN  IF driver_pits = <<>>
           THEN /\ raw_path' = <<>>
                /\ pit_lane_path' = <<<<>>>>
           ELSE LET raw == RawPath(pit_samples, driver_pits[1])
                IN  /\ raw_path' = AsPath(raw)
                    /\ pit_lane_path' =
                          IF raw = <<>> \/ track_pts = <<>>
                          THEN <<AsPath(raw)>>
                          ELSE <<AsPath(SelectSeq(raw,
                                    LAMBDA loc : Deviates(loc.x, loc.y, track_pts)))>>
    /\ ppc' = "returned"
    /\ UNCHANGED <<pit_data, pit_samples, track_pts, besidePit>>

NextPit == ExtractPitLanePath

SpecPit ==
    /\ InitPit
    /\ [][NextPit]_vars

(***************************************************************************)
(* compute_track_rotation(track_x, track_y).  Angles are in hundredths of  *)
(* a degree.                                                               *)
(***************************************************************************)

\* Bound: number of outline points.
MaxTrackLen == 21

\* Direction of the outline's first points: step (dx, dy) between neighbours.
TrackDirections ==
    {<<0, 0>>, <<10, 0>>, <<10, 10>>, <<0, 10>>, <<-10, 10>>,
     <<-10, 0>>, <<-10, -10>>, <<0, -10>>, <<10, -10>>}

\* An outline of n points that leaves (500, 300) in direction d.
StraightX(n, d) == [i \in 1..n |-> 500 + (i - 1) * d[1]]
StraightY(n, d) == [i \in 1..n |-> 300 + (i - 1) * d[2]]

\* math.degrees(math.atan2(dy, dx)) in hundredths of a degree, for vectors
\* along the axes and the diagonals (both conversions are exact there up to
\* the two decimals that round() keeps).
Atan2Degrees(dy, dx) ==
    IF dy = 0 THEN (IF dx >= 0 THEN 0 ELSE 18000)
    ELSE IF dx = 0 THEN (IF dy > 0 THEN 9000 ELSE -9000)
    ELSE IF dy > 0 THEN (IF dx > 0 THEN 4500 ELSE 13500)
    ELSE (IF dx > 0 THEN -4500 ELSE -13500)

\* max(5, len(track_x) * 3 // 100)
StraightEnd(tx) == IF (Len(tx) * 3) \div 100 > 5 THEN (Len(tx) * 3) \div 100 ELSE 5

\* The degenerate test with 19 in place of 20.
TooFewPoints19(tx) == Len(tx) < 19

\* len(track_x) < 20
TooFewPoints(tx) == Len(tx) < 20

InitRotation ==
    /\ \E n \in 0..MaxTrackLen, d \in TrackDirections :
          rot_x = StraightX(n, d) /\ rot_y = StraightY(n, d)
    /\ rot_reads = {}
    /\ rotation = Unset
    /\ rotpc = "call"
    \* the other components rest
    /\ ts = <<>> /\ xs = <<>> /\ ys = <<>> /\ positions = Unset /\ rpc = "idle"
    /\ laps_data = <<>> /\ location_samples = <<>> /\ best_lap = Unset
    /\ track = Unset /\ opc = "idle"
    /\ ln = 0 /\ lap_group = <<>> /\ rc_events = <<>> /\ prev_positions = <<>>
    /\ before_positions = <<>> /\ events = <<>> /\ insights = <<>>
    /\ pit_data = <<>> /\ pit_samples = <<>> /\ track_pts = <<>> /\ raw_path = <<>>
    /\ pit_lane_path = Unset /\ ppc = "idle"
    /\ status = "idle" /\ progress = 0 /\ message = "" /\ data = Unset
    /\ lpc = "off" /\ lstage = 0 /\ hpc = <<>> /\ hroute = <<>> /\ hseen = <<>> /\ hresp = <<>>
    /\ mpc = "off" /\ fetched = {} /\ has_meeting_key = FALSE /\ has_lap1 = FALSE
    /\ loc_todo = 0 /\ located = {} /\ mv = "untried" /\ written = {}
    /\ outcome = "idle" /\ failure = "none"
    /\ obj = <<>> /\ scrubbed = Unset /\ serialized = Unset /\ scpc = "idle"
    /\ all_rc = <<>> /\ status_lap = 0 /\ lap_status = Unset /\ tspc = "idle"
    /\ all_laps = <<>> /\ all_stints = <<>> /\ all_pits = <<>> /\ lap_i = 0
    /\ driver_best_times = <<>> /\ laps_list = <<>> /\ run_insights = Unset /\ apc = "idle"
    /\ position_log = <<>>

\* The call compute_track_rotation(rot_x, rot_y), from entry to return.
\* Python index n is element n + 1 here; rot_reads holds Python indices.
ComputeTrackRotation ==
    /\ rotpc = "call"
    /\ IF TooFewPoints(rot_x)
       THEN /\ rotation' = <<0>>
            /\ rot_reads' = {}
       ELSE LET n  == StraightEnd(rot_x)
                dx == rot_x[n + 1] - rot_x[1]
                dy == rot_y[n + 1] - rot_y[1]
            IN  /\ rotation' = <<-Atan2Degrees(dy, dx)>>
                /\ rot_reads' = {0, n}
    /\ rotpc' = "returned"
    /\ UNCHANGED <<rot_x, rot_y, besideRotation>>

NextRotation == ComputeTrackRotation

SpecRotation ==
    /\ InitRotation
    /\ [][NextRotation]_vars

(***************************************************************************)
(* server.py: the global STATE, the background loader thread running       *)
(* load_race_data and the request handlers of /api/data and                *)
(* /api/positions.  Every read or write of a STATE entry is one step.      *)
(***************************************************************************)

\* Bound: number of requests handled while the loader runs.
MaxHandlers == 2

Handlers == 1..MaxHandlers

Routes == {"data", "positions"}

\* The values STATE['progress'] and STATE['message'] take, stage by stage.
StageProgress == <<5, 30, 45, 52, 55, 70, 85, 95>>
StageMessage ==
    <<"Fetching session", "Processing driver info", "Extracting track outline",
      "Detecting race start time", "Sampling position data", "Processing lap data",
      "Computing lap insights", "Finalising">>

\* The keys of the dict stored in STATE['data'].
Payload == <<"session", "drivers", "track", "positions", "laps", "insights">>

\* A response: status code and the keys (and values of interest) of its body.
Response(code, body) == [code |-> code, body |-> body]

InitServer ==
    /\ status = "idle" /\ progress = 0 /\ message = "" /\ data = Unset
    /\ lpc = "start" /\ lstage = 0
    /\ hpc = [h \in Handlers |-> "test"]
    /\ hroute \in [Handlers -> Routes]
    /\ hseen = [h \in Handlers |-> "none"]
    /\ hresp = [h \in Handlers |-> Unset]
    \* the other components rest
    /\ ts = <<>> /\ xs = <<>> /\ ys = <<>> /\ positions = Unset /\ rpc = "idle"
    /\ laps_data = <<>> /\ location_samples = <<>> /\ best_lap = Unset
    /\ track = Unset /\ opc = "idle"
    /\ ln = 0 /\ lap_group = <<>> /\ rc_events = <<>> /\ prev_positions = <<>>
    /\ before_positions = <<>> /\ events = <<>> /\ insights = <<>>
    /\ pit_data = <<>> /\ pit_samples = <<>> /\ track_pts = <<>> /\ raw_path = <<>>
    /\ pit_lane_path = Unset /\ ppc = "idle"
    /\ rot_x = <<>> /\ rot_y = <<>> /\ rot_reads = {} /\ rotation = Unset /\ rotpc = "idle"
    /\ mpc = "off" /\ fetched = {} /\ has_meeting_key = FALSE /\ has_lap1 = FALSE
    /\ loc_todo = 0 /\ located = {} /\ mv = "untried" /\ written = {}
    /\ outcome = "idle" /\ failure = "none"
    /\ obj = <<>> /\ scrubbed = Unset /\ serialized = Unset /\ scpc = "idle"
    /\ all_rc = <<>> /\ status_lap = 0 /\ lap_status = Unset /\ tspc = "idle"
    /\ all_laps = <<>> /\ all_stints = <<>> /\ all_pits = <<>> /\ lap_i = 0
    /\ driver_best_times = <<>> /\ laps_list = <<>> /\ run_insights = Unset /\ apc = "idle"
    /\ position_log = <<>>

\* STATE['status'] = 'loading'
LoaderStart ==
    /\ lpc = "start"
    /\ status' = "loading"
    /\ lstage' = 1
    /\ lpc' = "progress"
    /\ UNCHANGED <<progress, message, data, hpc, hroute, hseen, hresp, besideServer>>

\* STATE['progress'] = ... at the head of a stage
LoaderProgress ==
    /\ lpc = "progress"
    /\ progress' = StageProgress[lstage]
    /\ lpc' = "message"
    /\ UNCHANGED <<status, message, data, lstage, hpc, hroute, hseen, hresp, besideServer>>

\* STATE['message'] = ... at the head of a stage
LoaderMessage ==
    /\ lpc = "message"
    /\ message' = StageMessage[lstage]
    /\ lpc' = "work"
    /\ UNCHANGED <<status, progress, data, lstage, hpc, hroute, hseen, hresp, besideServer>>

\* The work of a stage completes; after the last stage the payload is built.
LoaderWork ==
    /\ lpc = "work"
    /\ IF lstage < Len(StageProgress)
       THEN lstage' = lstage + 1 /\ lpc' = "progress"
       ELSE lstage' = lstage /\ lpc' = "store"
    /\ UNCHANGED <<status, progress, message, data, hpc, hroute, hseen, hresp, besideServer>>

\* The work of a stage, or building the payload, raises: control enters the
\* except clause.
LoaderRaise ==
    /\ lpc \in {"work", "store"}
    /\ lpc' = "except"
    /\ UNCHANGED <<status, progress, message, data, lstage, hpc, hroute, hseen, hresp, besideServer>>

\* Advance of the loader with the assignment STATE['data'] = ... left out.
LoaderStoreSkipped ==
    /\ lpc = "store"
    /\ lpc' = "ready"
    /\ UNCHANGED <<status, progress, message, data, lstage, hpc, hroute, hseen, hresp, besideServer>>

\* STATE['data'] = _scrub({...})
LoaderStore ==
    /\ lpc = "store"
    /\ data' = <<Payload>>
    /\ lpc' = "ready"
    /\ UNCHANGED <<status, progress, message, lstage, hpc, hroute, hseen, hresp, besideServer>>

\* STATE['status'] = 'ready'
LoaderReady ==
    /\ lpc = "ready"
    /\ status' = "ready"
    /\ lpc' = "progress100"
    /\ UNCHANGED <<progress, message, data, lstage, hpc, hroute, hseen, hresp, besideServer>>

\* STATE['progress'] = 100
LoaderProgress100 ==
    /\ lpc = "progress100"
    /\ progress' = 100
    /\ lpc' = "messageReady"
    /\ UNCHANGED <<status, message, data, lstage, hpc, hroute, hseen, hresp, besideServer>>

\* STATE['message'] = 'Ready'
LoaderMessageReady ==
    /\ lpc = "messageReady"
    /\ message' = "Ready"
    /\ lpc' = "done"
    /\ UNCHANGED <<status, progress, data, lstage, hpc, hroute, hseen, hresp, besideServer>>

\* except: STATE['status'] = 'error'
LoaderExcept ==
    /\ lpc = "except"
    /\ status' = "error"
    /\ lpc' = "exceptMessage"
    /\ UNCHANGED <<progress, message, data, lstage, hpc, hroute, hseen, hresp, besideServer>>

\* except: STATE['message'] = str(e)
LoaderExceptMessage ==
    /\ lpc = "exceptMessage"
    /\ message' = "str(e)"
    /\ lpc' = "failed"
    /\ UNCHANGED <<status, progress, data, lstage, hpc, hroute, hseen, hresp, besideServer>>

\* if STATE['status'] != 'ready': the handler reads the status.
HandlerTest(h) ==
    /\ hpc[h] = "test"
    /\ hseen' = [hseen EXCEPT ![h] = status]
    /\ hpc' = [hpc EXCEPT ![h] = IF status # "ready" THEN "refuse" ELSE "read"]
    /\ UNCHANGED <<status, progress, message, data, lpc, lstage, hroute, hresp, besideServer>>

\* The 503 response.  api_data reads STATE['status'] once more for the body.
HandlerRefuse(h) ==
    /\ hpc[h] = "refuse"
    /\ hresp' = [hresp EXCEPT ![h] =
                    <<Response(503, IF hroute[h] = "data"
                                    THEN <<"error", "status", status>>
                                    ELSE <<"error">>)>>]
    /\ hpc' = [hpc EXCEPT ![h] = "done"]
    /\ UNCHANGED <<status, progress, message, data, lpc, lstage, hroute, hseen, besideServer>>

\* The handler reads STATE['data'] and returns the artifacts; subscripting
\* None raises TypeError, which the framework answers with 500.
HandlerRead(h) ==
    /\ hpc[h] = "read"
    /\ hresp' = [hresp EXCEPT ![h] =
                    IF data = Unset THEN <<Response(500, <<>>)>>
                    ELSE IF hroute[h] = "data"
                    THEN <<Response(200, SelectSeq(data[1], LAMBDA k : k # "positions"))>>
                    ELSE <<Response(200, SelectSeq(data[1], LAMBDA k : k = "positions"))>>]
    /\ hpc' = [hpc EXCEPT ![h] = "done"]
    /\ UNCHANGED <<status, progress, message, data, lpc, lstage, hroute, hseen, besideServer>>

NextServer ==
    \/ LoaderStart \/ LoaderProgress \/ LoaderMessage \/ LoaderWork \/ LoaderRaise
    \/ LoaderStore \/ LoaderReady \/ LoaderProgress100 \/ LoaderMessageReady
    \/ LoaderExcept \/ LoaderExceptMessage
    \/ \E h \in Handlers : HandlerTest(h)
    \/ \E h \in Handlers : HandlerRefuse(h)
    \/ \E h \in Handlers : HandlerRead(h)

SpecServer ==
    /\ InitServer
    /\ [][NextServer]_vars

(***************************************************************************)
(* generate_static.main: the requests to the data API, the derivation      *)
(* steps and the two artifact writes, in program order.                    *)
(***************************************************************************)

\* Bound: number of drivers in the roster.
MaxDrivers == 3

\* The bulk requests of Step 2, in program order.
BulkStages == <<"drivers", "laps", "stints", "pit", "position", "race_control", "weather">>

\* Position of a stage in BulkStages.
BulkIndex(stage) == CHOOSE i \in 1..Len(BulkStages) : BulkStages[i] = stage

IsBulkStage(stage) == \E i \in 1..Len(BulkStages) : BulkStages[i] = stage

\* The statement after the bulk request of a stage.
AfterBulk(stage) ==
    IF BulkIndex(stage) < Len(BulkStages) THEN BulkStages[BulkIndex(stage) + 1]
    ELSE "race_start"

\* The stages whose request goes through api_get (r.raise_for_status()).
IsApiGetStage(stage) == stage \in {"sessions", "meetings", "location"} \/ IsBulkStage(stage)

Artifacts == {"data.json", "positions.json"}

InitMain ==
    /\ mpc = "sessions"
    /\ fetched = {}
    /\ has_meeting_key = FALSE
    /\ has_lap1 = FALSE
    /\ loc_todo = 0
    /\ located = {}
    /\ mv = "untried"
    /\ written = {}
    /\ outcome = "running"
    /\ failure = "none"
    \* the other components rest
    /\ ts = <<>> /\ xs = <<>> /\ ys = <<>> /\ positions = Unset /\ rpc = "idle"
    /\ laps_data = <<>> /\ location_samples = <<>> /\ best_lap = Unset
    /\ track = Unset /\ opc = "idle"
    /\ ln = 0 /\ lap_group = <<>> /\ rc_events = <<>> /\ prev_positions = <<>>
    /\ before_positions = <<>> /\ events = <<>> /\ insights = <<>>
    /\ pit_data = <<>> /\ pit_samples = <<>> /\ track_pts = <<>> /\ raw_path = <<>>
    /\ pit_lane_path = Unset /\ ppc = "idle"
    /\ rot_x = <<>> /\ rot_y = <<>> /\ rot_reads = {} /\ rotation = Unset /\ rotpc = "idle"
    /\ status = "idle" /\ progress = 0 /\ message = "" /\ data = Unset
    /\ lpc = "off" /\ lstage = 0 /\ hpc = <<>> /\ hroute = <<>> /\ hseen = <<>> /\ hresp = <<>>
    /\ obj = <<>> /\ scrubbed = Unset /\ serialized = Unset /\ scpc = "idle"
    /\ all_rc = <<>> /\ status_lap = 0 /\ lap_status = Unset /\ tspc = "idle"
    /\ all_laps = <<>> /\ all_stints = <<>> /\ all_pits = <<>> /\ lap_i = 0
    /\ driver_best_times = <<>> /\ laps_list = <<>> /\ run_insights = Unset /\ apc = "idle"
    /\ position_log = <<>>

\* Step 1: sessions = api_get('sessions', ...); no session: log.error, return.
FetchSessions ==
    /\ mpc = "sessions"
    /\ \E resp \in {"none", "keyed", "unkeyed"} :
          IF resp = "none"
          THEN /\ outcome' = "aborted" /\ failure' = "no_session" /\ mpc' = "end"
               /\ UNCHANGED <<fetched, has_meeting_key>>
          ELSE /\ fetched' = fetched \cup {"sessions"}
               /\ has_meeting_key' = (resp = "keyed")
               /\ mpc' = IF resp = "keyed" THEN "meetings" ELSE "drivers"
               /\ UNCHANGED <<outcome, failure>>
    /\ UNCHANGED <<has_lap1, loc_todo, located, mv, written, besideMain>>

\* Step 1: meetings = api_get('meetings', ...), only with a meeting key.
FetchMeetings ==
    /\ mpc = "meetings"
    /\ fetched' = fetched \cup {"meetings"}
    /\ mpc' = "drivers"
    /\ UNCHANGED <<has_meeting_key, has_lap1, loc_todo, located, mv, written, outcome, failure, besideMain>>

\* Step 2: one bulk request returns.  The roster gives the number of
\* drivers; the laps hold a lap 1 with a start date or not.
FetchBulk ==
    /\ IsBulkStage(mpc)
    /\ fetched' = fetched \cup {mpc}
    /\ mpc' = AfterBulk(mpc)
    /\ IF mpc = "drivers" THEN loc_todo' \in 0..MaxDrivers ELSE loc_todo' = loc_todo
    /\ IF mpc = "laps" THEN has_lap1' \in BOOLEAN ELSE has_lap1' = has_lap1
    /\ UNCHANGED <<has_meeting_key, located, mv, written, outcome, failure, besideMain>>

\* A request that raises and also leaves data.json behind.
FetchRaisesWriting ==
    /\ IsApiGetStage(mpc)
    /\ outcome' = "crashed"
    /\ failure' = "request_error"
    /\ written' = written \cup {"data.json"}
    /\ mpc' = "end"
    /\ UNCHANGED <<fetched, has_meeting_key, has_lap1, loc_todo, located, mv, besideMain>>

\* requests.get or r.raise_for_status() raises inside api_get: nothing in
\* main catches it, the run ends with the exception.
FetchRaises ==
    /\ IsApiGetStage(mpc)
    /\ outcome' = "crashed"
    /\ failure' = "request_error"
    /\ mpc' = "end"
    /\ UNCHANGED <<fetched, has_meeting_key, has_lap1, loc_todo, located, mv, written, besideMain>>

\* Step 3: no lap-1 start: log.error, return.
DetermineRaceStart ==
    /\ mpc = "race_start"
    /\ IF has_lap1
       THEN /\ mpc' = IF loc_todo = 0 THEN "multiviewer" ELSE "location"
            /\ UNCHANGED <<outcome, failure>>
       ELSE /\ outcome' = "aborted" /\ failure' = "no_race_start" /\ mpc' = "end"
    /\ UNCHANGED <<fetched, has_meeting_key, has_lap1, loc_todo, located, mv, written, besideMain>>

\* Step 5: the location request of one driver returns, with samples or
\* empty (warning, continue).
FetchLocation ==
    /\ mpc = "location"
    /\ \E got \in BOOLEAN :
          located' = IF got THEN located \cup {loc_todo} ELSE located
    /\ loc_todo' = loc_todo - 1
    /\ mpc' = IF loc_todo = 1 THEN "multiviewer" ELSE "location"
    /\ UNCHANGED <<fetched, has_meeting_key, has_lap1, mv, written, outcome, failure, besideMain>>

\* Step 6: the optional request to the multiviewer API: skipped without a
\* circuit key; an exception is caught and logged as a warning.
Multiviewer ==
    /\ mpc = "multiviewer"
    /\ mv' \in {"skipped", "got", "failed"}
    /\ mpc' = "derive"
    /\ UNCHANGED <<fetched, has_meeting_key, has_lap1, loc_todo, located, written, outcome, failure, besideMain>>

\* Steps 6 (fallback outline) to 15: derivations, no request.
Derive ==
    /\ mpc = "derive"
    /\ mpc' = "write_data"
    /\ UNCHANGED <<fetched, has_meeting_key, has_lap1, loc_todo, located, mv, written, outcome, failure, besideMain>>

\* Step 16: data.json is written.
WriteData ==
    /\ mpc = "write_data"
    /\ written' = written \cup {"data.json"}
    /\ mpc' = "write_positions"
    /\ UNCHANGED <<fetched, has_meeting_key, has_lap1, loc_todo, located, mv, outcome, failure, besideMain>>

\* Step 16: positions.json is written; main returns.
WritePositions ==
    /\ mpc = "write_positions"
    /\ written' = written \cup {"positions.json"}
    /\ outcome' = "done"
    /\ mpc' = "end"
    /\ UNCHANGED <<fetched, has_meeting_key, has_lap1, loc_todo, located, mv, failure, besideMain>>

NextMain ==
    \/ FetchSessions \/ FetchMeetings \/ FetchBulk \/ FetchRaises
    \/ DetermineRaceStart \/ FetchLocation \/ Multiviewer \/ Derive
    \/ WriteData \/ WritePositions

SpecMain ==
    /\ InitMain
    /\ [][NextMain]_vars

(***************************************************************************)
(* _scrub and _safe_json.  A payload is a tree of nodes; a node has a kind *)
(* ("dict", "list", "float", "str", "none"), the key under which it sits   *)
(* in its parent dict ("" elsewhere), the text of a scalar, and the items  *)
(* of a container in their order.                                          *)
(***************************************************************************)

\* Bound: nesting depth of the payloads.
MaxDepth == 2

Node(kind, v, items) == [kind |-> kind, key |-> "", v |-> v, items |-> items]

\* Scalars: three non-finite floats, a finite float, and the string 'NaN'.
Scalars ==
    {Node("float", "nan", <<>>), Node("float", "inf", <<>>), Node("float", "-inf", <<>>),
     Node("float", "1.5", <<>>), Node("str", "NaN", <<>>)}

DictKeys == <<"a", "b">>

ListOf(items) == Node("list", "", items)

\* A dict whose i-th entry (in insertion order) has the key DictKeys[i].
DictOf(items) ==
    Node("dict", "", [i \in 1..Len(items) |-> [items[i] EXCEPT !.key = DictKeys[i]]])

\* Payloads nested up to depth d: a container holds nothing, one payload of
\* depth d - 1, or such a payload followed by a scalar.
RECURSIVE PayloadsOf(_)
PayloadsOf(d) ==
    IF d = 0 THEN Scalars
    ELSE LET inner == PayloadsOf(d - 1)
             lists == {<<>>} \cup {<<a>> : a \in inner}
                        \cup {<<a, sc>> : a \in inner, sc \in Scalars}
         IN  Scalars \cup {ListOf(l) : l \in lists} \cup {DictOf(l) : l \in lists}

\* math.isnan(obj), alone.
IsNaN(node) == node.v = "nan"

\* math.isnan(obj) or math.isinf(obj)
IsNonFinite(node) == node.v \in {"nan", "inf", "-inf"}

\* _scrub(obj)
RECURSIVE _scrub(_)
_scrub(node) ==
    IF node.kind \in {"dict", "list"}
    THEN [node EXCEPT !.items = [i \in 1..Len(node.items) |-> _scrub(node.items[i])]]
    ELSE IF node.kind = "float"
    THEN (IF IsNonFinite(node) THEN [node EXCEPT !.kind = "none", !.v = "None"] ELSE node)
    ELSE node

\* The token json.dumps writes for a scalar.
ScalarToken(node) ==
    IF node.kind = "none" THEN "null"
    ELSE IF node.kind = "str" THEN "\"" \o node.v \o "\""
    ELSE IF node.v = "nan" THEN "NaN"
    ELSE IF node.v = "inf" THEN "Infinity"
    ELSE IF node.v = "-inf" THEN "-Infinity"
    ELSE node.v

\* json.dumps(node) as a sequence of tokens.
RECURSIVE Dumps(_)
RECURSIVE DumpItems(_, _, _)
DumpItems(node, i, acc) ==
    IF i > Len(node.items) THEN acc
    ELSE LET sep   == IF i > 1 THEN <<",">> ELSE <<>>
             label == IF node.kind = "dict"
                      THEN <<"\"" \o node.items[i].key \o "\"", ":">> ELSE <<>>
         IN  DumpItems(node, i + 1, acc \o sep \o label \o Dumps(node.items[i]))

Dumps(node) ==
    IF node.kind = "dict" THEN <<"{">> \o DumpItems(node, 1, <<>>) \o <<"}">>
    ELSE IF node.kind = "list" THEN <<"[">> \o DumpItems(node, 1, <<>>) \o <<"]">>
    ELSE <<ScalarToken(node)>>

InitScrub ==
    /\ obj \in PayloadsOf(MaxDepth)
    /\ scrubbed = Unset
    /\ serialized = Unset
    /\ scpc = "call"
    \* the other components rest
    /\ ts = <<>> /\ xs = <<>> /\ ys = <<>> /\ positions = Unset /\ rpc = "idle"
    /\ laps_data = <<>> /\ location_samples = <<>> /\ best_lap = Unset
    /\ track = Unset /\ opc = "idle"
    /\ ln = 0 /\ lap_group = <<>> /\ rc_events = <<>> /\ prev_positions = <<>>
    /\ before_positions = <<>> /\ events = <<>> /\ insights = <<>>
    /\ pit_data = <<>> /\ pit_samples = <<>> /\ track_pts = <<>> /\ raw_path = <<>>
    /\ pit_lane_path = Unset /\ ppc = "idle"
    /\ rot_x = <<>> /\ rot_y = <<>> /\ rot_reads = {} /\ rotation = Unset /\ rotpc = "idle"
    /\ status = "idle" /\ progress = 0 /\ message = "" /\ data = Unset
    /\ lpc = "off" /\ lstage = 0 /\ hpc = <<>> /\ hroute = <<>> /\ hseen = <<>> /\ hresp = <<>>
    /\ mpc = "off" /\ fetched = {} /\ has_meeting_key = FALSE /\ has_lap1 = FALSE
    /\ loc_todo = 0 /\ located = {} /\ mv = "untried" /\ written = {}
    /\ outcome = "idle" /\ failure = "none"
    /\ all_rc = <<>> /\ status_lap = 0 /\ lap_status = Unset /\ tspc = "idle"
    /\ all_laps = <<>> /\ all_stints = <<>> /\ all_pits = <<>> /\ lap_i = 0
    /\ driver_best_times = <<>> /\ laps_list = <<>> /\ run_insights = Unset /\ apc = "idle"
    /\ position_log = <<>>

\* _safe_json(obj): s = json.dumps(_scrub(data))
SafeJson ==
    /\ scpc = "call"
    /\ scrubbed' = <<_scrub(obj)>>
    /\ serialized' = <<Dumps(_scrub(obj))>>
    /\ scpc' = "returned"
    /\ UNCHANGED <<obj, besideScrub>>

NextScrub == SafeJson

SpecScrub ==
    /\ InitScrub
    /\ [][NextScrub]_vars

(***************************************************************************)
(* get_track_status_for_lap(lap_number), the closure of generate_static    *)
(* .main over all_rc that Step 13 calls for every lap record.              *)
(***************************************************************************)

\* Bound: number of race-control messages in all_rc.
MaxRc == 3

\* Race-control messages of lap 1 and of lap 2.
RcOfLaps == {[lap_number |-> n, message |-> rc.message, flag |-> rc.flag] :
                n \in {1, 2}, rc \in RcMessages}

AllRcLists == UNION {[1..m -> RcOfLaps] : m \in 0..MaxRc}

\* rc_for_lap = [rc for rc in all_rc if rc.get('lap_number') == lap_number]
RcForLap(rcs, lap) == SelectSeq(rcs, LAMBDA rc : rc.lap_number = lap)

\* The first loop: the first message, in list order, that is a safety-car or
\* a virtual-safety-car message decides; "" when the loop falls through.
RECURSIVE FirstCarCode(_)
FirstCarCode(rcs) ==
    IF rcs = <<>> THEN ""
    ELSE IF IsScMessage(Head(rcs)) THEN "4"
    ELSE IF IsVscMessage(Head(rcs)) THEN "5"
    ELSE FirstCarCode(Tail(rcs))

\* The second loop: the first message with a DOUBLE YELLOW or YELLOW flag.
RECURSIVE FirstFlagCode(_)
FirstFlagCode(rcs) ==
    IF rcs = <<>> THEN ""
    ELSE IF Head(rcs).flag = "DOUBLE YELLOW" THEN "3"
    ELSE IF Head(rcs).flag = "YELLOW" THEN "2"
    ELSE FirstFlagCode(Tail(rcs))

\* get_track_status_for_lap(lap_number)
get_track_status_for_lap(rcs, lap) ==
    LET rc_for_lap == RcForLap(rcs, lap)
    IN  IF FirstCarCode(rc_for_lap) # "" THEN FirstCarCode(rc_for_lap)
        ELSE IF FirstFlagCode(rc_for_lap) # "" THEN FirstFlagCode(rc_for_lap)
        ELSE "1"

InitTrackStatus ==
    /\ all_rc \in AllRcLists
    /\ status_lap = 1
    /\ lap_status = Unset
    /\ tspc = "call"
    \* the other components rest
    /\ ts = <<>> /\ xs = <<>> /\ ys = <<>> /\ positions = Unset /\ rpc = "idle"
    /\ laps_data = <<>> /\ location_samples = <<>> /\ best_lap = Unset
    /\ track = Unset /\ opc = "idle"
    /\ ln = 0 /\ lap_group = <<>> /\ rc_events = <<>> /\ prev_positions = <<>>
    /\ before_positions = <<>> /\ events = <<>> /\ insights = <<>>
    /\ pit_data = <<>> /\ pit_samples = <<>> /\ track_pts = <<>> /\ raw_path = <<>>
    /\ pit_lane_path = Unset /\ ppc = "idle"
    /\ rot_x = <<>> /\ rot_y = <<>> /\ rot_reads = {} /\ rotation = Unset /\ rotpc = "idle"
    /\ status = "idle" /\ progress = 0 /\ message = "" /\ data = Unset
    /\ lpc = "off" /\ lstage = 0 /\ hpc = <<>> /\ hroute = <<>> /\ hseen = <<>> /\ hresp = <<>>
    /\ mpc = "off" /\ fetched = {} /\ has_meeting_key = FALSE /\ has_lap1 = FALSE
    /\ loc_todo = 0 /\ located = {} /\ mv = "untried" /\ written = {}
    /\ outcome = "idle" /\ failure = "none"
    /\ obj = <<>> /\ scrubbed = Unset /\ serialized = Unset /\ scpc = "idle"
    /\ all_laps = <<>> /\ all_stints = <<>> /\ all_pits = <<>> /\ lap_i = 0
    /\ driver_best_times = <<>> /\ laps_list = <<>> /\ run_insights = Unset /\ apc = "idle"
    /\ position_log = <<>>

\* track_status = get_track_status_for_lap(lap_num)
GetTrackStatus ==
    /\ tspc = "call"
    /\ lap_status' = <<get_track_status_for_lap(all_rc, status_lap)>>
    /\ tspc' = "returned"
    /\ UNCHANGED <<all_rc, status_lap, besideTrackStatus>>

NextTrackStatus == GetTrackStatus

SpecTrackStatus ==
    /\ InitTrackStatus
    /\ [][NextTrackStatus]_vars

(***************************************************************************)
(* Steps 9-15 of generate_static.main: the stint and pit lookups, the      *)
(* assembly of the lap records, and compute_insights over them.            *)
(* Lap times are in milliseconds, dates in tenths of a second.             *)
(***************************************************************************)

MaxAssembleLaps == 3

\* str(driver_number) of the driver numbers of the inputs.
str(n) == IF n = 1 THEN "1" ELSE "44"

\* A lap record of the source; it carries no date_start and no sector times.
RawLap(drv, n, duration) ==
    [driver_number |-> drv, lap_number |-> n, lap_duration |-> duration,
     duration_sector_1 |-> None, duration_sector_2 |-> None,
     duration_sector_3 |-> None, date_start |-> None]

RawLaps == {RawLap(44, n, d) : n \in (1..MaxAssembleLaps) \cup {None},
                               d \in {None, 88100, 89000}}

\* The lap records in any order, no lap number twice.
RawLapLists ==
    {s \in [1..MaxAssembleLaps -> RawLaps] :
        \A a, b \in 1..MaxAssembleLaps : s[a].lap_number = s[b].lap_number => a = b}

StintRecord(drv, num, first, last, compound) ==
    [driver_number |-> drv, stint_number |-> num, lap_start |-> first,
     lap_end |-> last, compound |-> compound, tyre_age_at_start |-> 0]

\* Two stints of driver 44 (laps 1-2 on MEDIUM, from lap 3 on HARD, still
\* open), in either order of the list; the same with the stop lap in both
\* ranges; and no stint at all.
StintTables ==
    {<<>>,
     <<StintRecord(44, 1, 1, 2, "MEDIUM"), StintRecord(44, 2, 3, None, "HARD")>>,
     <<StintRecord(44, 2, 3, None, "HARD"), StintRecord(44, 1, 1, 2, "MEDIUM")>>,
     <<StintRecord(44, 1, 1, 2, "MEDIUM"), StintRecord(44, 2, 2, None, "HARD")>>}

AssemblePit(drv, n) ==
    [driver_number |-> drv, lap_number |-> n, date |-> RaceStart + 900 * n,
     lane_duration |-> 230, stop_duration |-> 25]

AssemblePitTables ==
    {<<>>, <<AssemblePit(44, 2)>>, <<AssemblePit(44, 3)>>, <<AssemblePit(1, 2)>>}

\* all_rc of the run: a safety car on lap 2.
AssembleRc ==
    <<[lap_number |-> 2, message |-> <<"SAFETY", "CAR", "DEPLOYED">>, flag |-> NoneStr]>>

\* stints_by_driver.get(str(driver_num), [])
StintsOfDriver(stints, driver_num) ==
    SelectSeq(stints, LAMBDA st : str(st.driver_number) = str(driver_num))

\* find_stint: the first stint of the driver, in list order, whose lap range
\* holds the lap number; an open range ends at 9999.  <<>> stands for None.
RECURSIVE FirstStintHolding(_, _)
FirstStintHolding(sts, lap_number) ==
    IF sts = <<>> THEN <<>>
    ELSE LET st  == Head(sts)
             end == IF st.lap_end = None THEN 9999 ELSE st.lap_end
         IN  IF st.lap_start <= lap_number /\ lap_number <= end
             THEN <<st>>
             ELSE FirstStintHolding(Tail(sts), lap_number)

find_stint(stints, driver_num, lap_number) ==
    FirstStintHolding(StintsOfDriver(stints, driver_num), lap_number)

\* pits_by_driver_lap.get((dnum, lap_num)): the last pit record of the key.
PitOfLap(pits, dnum, lap_num) ==
    LET hits == SelectSeq(pits, LAMBDA p : str(p.driver_number) = dnum
                                           /\ p.lap_number = lap_num)
    IN  IF hits = <<>> THEN <<>> ELSE <<hits[Len(hits)]>>

\* The body of the Step 13 loop for one lap record with a lap number.
AssembledLap(l, best) ==
    LET dnum     == str(l.driver_number)
        lap_num  == l.lap_number
        lap_time == l.lap_duration
        stint    == find_stint(all_stints, l.driver_number, lap_num)
        pit      == PitOfLap(all_pits, dnum, lap_num)
        pit_t    == to_seconds(pit[1].date, RaceStart)
        start    == IF stint # <<>> THEN stint[1].lap_start ELSE lap_num
        age      == IF stint # <<>> THEN stint[1].tyre_age_at_start ELSE 0
    IN  [driver       |-> dnum,
         lap          |-> lap_num,
         lap_time     |-> lap_time,
         sector1      |-> l.duration_sector_1,
         sector2      |-> l.duration_sector_2,
         sector3      |-> l.duration_sector_3,
         compound     |-> IF stint # <<>> THEN stint[1].compound ELSE "UNKNOWN",
         tyre_life    |-> age + (lap_num - start) + 1,
         pit_in       |-> IF pit # <<>> THEN pit_t ELSE None,
         pit_out      |-> IF pit # <<>> THEN pit_t + pit[1].lane_duration ELSE None,
         pit_stop_duration |-> IF pit # <<>> THEN pit[1].stop_duration ELSE None,
         lap_start    |-> None,
         position     |-> None,
         is_pb        |-> /\ lap_time # None
                          /\ (~DictHas(best, dnum) \/ lap_time < DictGet(best, dnum)),
         track_status |-> get_track_status_for_lap(AssembleRc, lap_num),
         stint        |-> IF stint # <<>> THEN stint[1].stint_number ELSE None]

\* compute_insights: the lap groups in ascending lap number, each with the
\* positions of the group before it.
RECURSIVE InsightsFrom(_, _, _, _, _)
InsightsFrom(laps, rcs, n, prev, acc) ==
    IF \A i \in 1..Len(laps) : laps[i].lap < n THEN acc
    ELSE LET group   == SelectSeq(laps, LAMBDA l : l.lap = n)
             emitted == EmittedEvents(group, RcForLap(rcs, n), prev)
         IN  IF group = <<>> THEN InsightsFrom(laps, rcs, n + 1, prev, acc)
             ELSE InsightsFrom(laps, rcs, n + 1, CurPositions(group),
                               DictPut(acc, Digits(n), Stored(SortByPriority(emitted))))

compute_insights(laps, rcs) == InsightsFrom(laps, rcs, 1, <<>>, <<>>)

InitAssemble ==
    /\ all_laps \in RawLapLists
    /\ all_stints \in StintTables
    /\ all_pits \in AssemblePitTables
    /\ lap_i = 1
    /\ driver_best_times = <<>>
    /\ laps_list = <<>>
    /\ run_insights = Unset
    /\ apc = "assemble"
    \* the other components rest
    /\ ts = <<>> /\ xs = <<>> /\ ys = <<>> /\ positions = Unset /\ rpc = "idle"
    /\ laps_data = <<>> /\ location_samples = <<>> /\ best_lap = Unset
    /\ track = Unset /\ opc = "idle"
    /\ ln = 0 /\ lap_group = <<>> /\ rc_events = <<>> /\ prev_positions = <<>>
    /\ before_positions = <<>> /\ events = <<>> /\ insights = <<>>
    /\ pit_data = <<>> /\ pit_samples = <<>> /\ track_pts = <<>> /\ raw_path = <<>>
    /\ pit_lane_path = Unset /\ ppc = "idle"
    /\ rot_x = <<>> /\ rot_y = <<>> /\ rot_reads = {} /\ rotation = Unset /\ rotpc = "idle"
    /\ status = "idle" /\ progress = 0 /\ message = "" /\ data = Unset
    /\ lpc = "off" /\ lstage = 0 /\ hpc = <<>> /\ hroute = <<>> /\ hseen = <<>> /\ hresp = <<>>
    /\ mpc = "off" /\ fetched = {} /\ has_meeting_key = FALSE /\ has_lap1 = FALSE
    /\ loc_todo = 0 /\ located = {} /\ mv = "untried" /\ written = {}
    /\ outcome = "idle" /\ failure = "none"
    /\ obj = <<>> /\ scrubbed = Unset /\ serialized = Unset /\ scpc = "idle"
    /\ all_rc = <<>> /\ status_lap = 0 /\ lap_status = Unset /\ tspc = "idle"
    /\ position_log = <<>>

\* An iteration of the Step 13 loop on a record without a lap number.
SkipLap ==
    /\ apc = "assemble"
    /\ lap_i <= Len(all_laps)
    /\ all_laps[lap_i].lap_number = None
    /\ lap_i' = lap_i + 1
    /\ UNCHANGED <<all_laps, all_stints, all_pits, driver_best_times, laps_list,
                   run_insights, apc>>
    /\ UNCHANGED besideAssemble

\* An iteration of the Step 13 loop that appends a lap record.
AssembleLap ==
    /\ apc = "assemble"
    /\ lap_i <= Len(all_laps)
    /\ all_laps[lap_i].lap_number # None
    /\ LET rec == AssembledLap(all_laps[lap_i], driver_best_times)
       IN  /\ laps_list' = Append(laps_list, rec)
           /\ driver_best_times' =
                  IF rec.is_pb THEN DictPut(driver_best_times, rec.driver, rec.lap_time)
                  ELSE driver_best_times
    /\ lap_i' = lap_i + 1
    /\ UNCHANGED <<all_laps, all_stints, all_pits, run_insights, apc>>
    /\ UNCHANGED besideAssemble

\* Step 15: insights = compute_insights(laps_list, drivers, total_laps, all_rc)
ComputeInsights ==
    /\ apc = "assemble"
    /\ lap_i > Len(all_laps)
    /\ run_insights' = <<compute_insights(laps_list, AssembleRc)>>
    /\ apc' = "done"
    /\ UNCHANGED <<all_laps, all_stints, all_pits, lap_i, driver_best_times, laps_list>>
    /\ UNCHANGED besideAssemble

NextAssemble == SkipLap \/ AssembleLap \/ ComputeInsights

SpecAssemble == InitAssemble /\ [][NextAssemble]_vars

(***************************************************************************)
(* compute_insights over a run of laps that differ in positions only: the  *)
(* position state carried from one lap group to the next.                  *)
(***************************************************************************)

MaxCarryLaps == 3

\* dict.update: prev_positions keeps the drivers the lap group does not name.
RECURSIVE CarryPositionsMerged(_, _)
CarryPositionsMerged(prev, cur) ==
    IF cur = <<>> THEN prev
    ELSE CarryPositionsMerged(DictPut(prev, cur[1].k, cur[1].v), Tail(cur))

\* prev_positions = cur_positions
CarryPositions(prev, cur) == cur

InitCarry ==
    /\ ln = 0
    /\ lap_group = <<>>
    /\ rc_events = <<>>
    /\ prev_positions = <<>>
    /\ before_positions = <<>>
    /\ events = <<>>
    /\ insights = <<>>
    /\ position_log = <<>>
    \* the other components rest
    /\ ts = <<>> /\ xs = <<>> /\ ys = <<>> /\ positions = Unset /\ rpc = "idle"
    /\ laps_data = <<>> /\ location_samples = <<>> /\ best_lap = Unset
    /\ track = Unset /\ opc = "idle"
    /\ pit_data = <<>> /\ pit_samples = <<>> /\ track_pts = <<>> /\ raw_path = <<>>
    /\ pit_lane_path = Unset /\ ppc = "idle"
    /\ rot_x = <<>> /\ rot_y = <<>> /\ rot_reads = {} /\ rotation = Unset /\ rotpc = "idle"
    /\ status = "idle" /\ progress = 0 /\ message = "" /\ data = Unset
    /\ lpc = "off" /\ lstage = 0 /\ hpc = <<>> /\ hroute = <<>> /\ hseen = <<>> /\ hresp = <<>>
    /\ mpc = "off" /\ fetched = {} /\ has_meeting_key = FALSE /\ has_lap1 = FALSE
    /\ loc_todo = 0 /\ located = {} /\ mv = "untried" /\ written = {}
    /\ outcome = "idle" /\ failure = "none"
    /\ obj = <<>> /\ scrubbed = Unset /\ serialized = Unset /\ scpc = "idle"
    /\ all_laps = <<>> /\ all_stints = <<>> /\ all_pits = <<>> /\ lap_i = 0
    /\ driver_best_times = <<>> /\ laps_list = <<>> /\ run_insights = Unset /\ apc = "idle"
    /\ all_rc = <<>> /\ status_lap = 0 /\ lap_status = Unset /\ tspc = "idle"

\* One iteration of "for ln in sorted(by_lap.keys())" on a lap group without
\* race-control messages; lap numbers may be missing from the data.
ProcessPositionLap ==
    \E n \in (ln + 1)..MaxCarryLaps, input \in PositionGroups :
        LET group   == WithLap(input, n)
            emitted == EmittedEvents(group, <<>>, prev_positions)
        IN  /\ ln' = n
            /\ lap_group' = group
            /\ rc_events' = <<>>
            /\ events' = emitted
            /\ insights' = DictPut(insights, Digits(n), Stored(SortByPriority(emitted)))
            /\ before_positions' = prev_positions
            /\ prev_positions' = CarryPositions(prev_positions, CurPositions(group))
            /\ position_log' = Append(position_log,
                                      [lap |-> n, positions |-> CurPositions(group)])
            /\ UNCHANGED <<resampleVars, outlineVars, pitVars, rotationVars, serverVars,
                           mainVars, scrubVars, trackStatusVars, assembleVars>>

NextCarry == ProcessPositionLap

SpecCarry == InitCarry /\ [][NextCarry]_vars

(***************************************************************************)
(* Properties of the resampler.                                            *)
(***************************************************************************)

RECURSIVE SeqMin(_)
SeqMin(s) == IF Len(s) = 1 THEN s[1] ELSE Min(s[1], SeqMin(Tail(s)))

RECURSIVE SeqMax(_)
SeqMax(s) == IF Len(s) = 1 THEN s[1]
             ELSE IF s[1] >= SeqMax(Tail(s)) THEN s[1] ELSE SeqMax(Tail(s))

Resampled == rpc = "resampled"

\* The resampled trace once it is assigned.
Out == positions[1]

\* C4: the output timestamps are t_min, t_min + dt, ... up to the last grid
\* point <= t_max, i.e. floor((t_max - t_min) / dt) + 1 entries with constant
\* step dt, for every non-empty raw trace.
C4_GridContract ==
    Resampled =>
        LET t_min == SeqMin(ts)
            t_max == SeqMax(ts)
            n     == (t_max - t_min) \div RESAMPLE_DT + 1
        IN  /\ Len(Out.t) = n
            /\ \A i \in 1..Len(Out.t) :
                  Out.t[i] = t_min + (i - 1) * RESAMPLE_DT

\* C5: resampling the resampler's own output with the same dt returns that
\* output unchanged (same length, timestamps and coordinates).
C5_Idempotent ==
    (Resampled /\ Out.t # <<>>) =>
        Resample(Out.t, Out.x, Out.y) = Out

\* Index of the first / last raw sample that carries the largest raw timestamp.
FirstAtMax == CHOOSE i \in 1..Len(ts) :
                 /\ ts[i] = SeqMax(ts)
                 /\ \A h \in 1..(i - 1) : ts[h] # SeqMax(ts)
LastAtMax  == CHOOSE i \in 1..Len(ts) :
                 /\ ts[i] = SeqMax(ts)
                 /\ \A h \in (i + 1)..Len(ts) : ts[h] # SeqMax(ts)

FirstEntryIsFirstSample ==
    Out.t # <<>> => Out.x[1] = xs[1] /\ Out.y[1] = ys[1]

\* C6 as stated: the first output entry is the first raw sample, and a grid
\* point on the final raw timestamp yields the last raw sample's (x, y), also
\* when several raw samples share that timestamp.
C6_HoldsLastSample ==
    Resampled =>
        /\ FirstEntryIsFirstSample
        /\ \A i \in 1..Len(Out.t) :
              Out.t[i] = SeqMax(ts) =>
                  /\ Out.x[i] = xs[LastAtMax]
                  /\ Out.y[i] = ys[LastAtMax]

\* C6 amended: the first output entry is the first raw sample, and a grid
\* point on the final raw timestamp yields the (x, y) of the first raw sample,
\* in input order, that carries that timestamp.
C6_HoldsFirstSampleAtFinal ==
    Resampled =>
        /\ FirstEntryIsFirstSample
        /\ \A i \in 1..Len(Out.t) :
              Out.t[i] = SeqMax(ts) =>
                  /\ Out.x[i] = xs[FirstAtMax]
                  /\ Out.y[i] = ys[FirstAtMax]

\* Witness of C6: a grid point after the first falls on a final raw timestamp
\* that two raw samples with different coordinates share.
C6_Witness ==
    /\ Resampled
    /\ Len(Out.t) >= 2
    /\ Out.t[Len(Out.t)] = SeqMax(ts)
    /\ FirstAtMax # LastAtMax
    /\ xs[FirstAtMax] # xs[LastAtMax]

Perms(n) == {f \in [1..n -> 1..n] : \A a, b \in 1..n : f[a] = f[b] => a = b}
Permuted(s, f) == [i \in 1..Len(s) |-> s[f[i]]]

\* C7: every permutation of the raw samples yields the same resampled trace.
C7_OrderIndependent ==
    Resampled =>
        \A f \in Perms(Len(ts)) :
            Resample(Permuted(ts, f), Permuted(xs, f), Permuted(ys, f)) = Out

(***************************************************************************)
(* Properties of extract_track_outline.                                    *)
(***************************************************************************)

Returned == opc = "returned"

\* The laps of the outline driver in laps_data, and two subsets of them.
OwnLaps   == {laps_data[i] : i \in {h \in 1..Len(laps_data) :
                                      laps_data[h].driver_number = OutlineDriver}}
TimedLaps == {l \in OwnLaps : l.lap_duration # None}
CleanLaps == {l \in TimedLaps : ~l.is_pit_out_lap /\ l.lap_number > 3}

IsFastestOf(l, S) == l \in S /\ \A o \in S : l.lap_duration <= o.lap_duration

\* The laps of the selection example: lap 1 without duration, lap 2 of 90.2 s
\* and pit-out, lap 3 of 88.1 s, lap 4 of 89.0 s.
C8_Laps ==
    OwnLaps = {LapRecord(OutlineDriver, 1, <<None, FALSE>>),
               LapRecord(OutlineDriver, 2, <<902, TRUE>>),
               LapRecord(OutlineDriver, 3, <<881, FALSE>>),
               LapRecord(OutlineDriver, 4, <<890, FALSE>>)}

\* C8 as stated: on the example laps, lap 3 (88.1 s) is selected.
C8_SelectsLap3 ==
    (Returned /\ C8_Laps) =>
        best_lap # Unset /\ best_lap[1].lap_number = 3

\* C8 amended: on the example laps, lap 4 (89.0 s) is selected: it is the only
\* lap with a duration that is not a pit-out lap and has a lap number > 3.
C8_SelectsLap4 ==
    (Returned /\ C8_Laps) =>
        /\ best_lap # Unset
        /\ best_lap[1].lap_number = 4
        /\ best_lap[1].lap_duration = 890

\* Witness of C8: extract_track_outline has returned on the example laps.
C8_Witness == Returned /\ C8_Laps

\* C9: two-stage choice.  With a clean lap (duration, not pit-out, lap > 3)
\* the fastest clean lap is selected; otherwise the fastest of all the
\* driver's laps with a duration; with no such lap the outline is empty.
\* No lap of another driver is selected.
C9_TwoStageSelection ==
    Returned =>
        /\ CleanLaps # {} => best_lap # Unset /\ IsFastestOf(best_lap[1], CleanLaps)
        /\ (CleanLaps = {} /\ TimedLaps # {}) =>
               best_lap # Unset /\ IsFastestOf(best_lap[1], TimedLaps)
        /\ TimedLaps = {} =>
               best_lap = Unset /\ track = <<[x |-> <<>>, y |-> <<>>]>>
        /\ best_lap # Unset => best_lap[1].driver_number = OutlineDriver

\* Witness of C9: the fallback stage decided (no clean lap), and the selected
\* lap is a pit-out lap or an early lap, with a slower timed lap beside it.
C9_Witness ==
    /\ Returned
    /\ CleanLaps = {}
    /\ best_lap # Unset
    /\ best_lap[1].lap_number <= 3
    /\ \E o \in TimedLaps : o.lap_duration > best_lap[1].lap_duration

\* Samples of location_samples inside the selected lap's window, sorted by
\* date (chronological order).
RECURSIVE InsertByDate(_, _)
InsertByDate(sorted, loc) ==
    IF sorted = <<>> THEN <<loc>>
    ELSE IF sorted[Len(sorted)].date <= loc.date
         THEN Append(sorted, loc)
         ELSE Append(InsertByDate(SubSeq(sorted, 1, Len(sorted) - 1), loc),
                     sorted[Len(sorted)])

RECURSIVE SortByDate(_)
SortByDate(s) ==
    IF s = <<>> THEN <<>>
    ELSE InsertByDate(SortByDate(SubSeq(s, 1, Len(s) - 1)), s[Len(s)])

InWindow(loc) ==
    LET t     == loc.date - RaceStart
        start == best_lap[1].date_start - RaceStart
    IN  start <= t /\ t <= start + best_lap[1].lap_duration

\* C10: the outline is exactly the samples with start <= t <= start + duration
\* of the selected lap, in chronological order whatever the input order.
C10_ChronologicalWindow ==
    (Returned /\ best_lap # Unset) =>
        LET chrono == SelectSeq(SortByDate(location_samples), InWindow)
        IN  /\ track[1].x = [i \in 1..Len(chrono) |-> chrono[i].x]
            /\ track[1].y = [i \in 1..Len(chrono) |-> chrono[i].y]

(***************************************************************************)
(* Properties of compute_insights.                                         *)
(***************************************************************************)

LapProcessed == ln > 0

\* The list stored for the lap processed last.
StoredNow == DictGet(insights, Digits(ln))

OfPriority(evs, p) == SelectSeq(evs, LAMBDA e : e.priority = p)
IsPrefix(a, b) == Len(a) <= Len(b) /\ a = SubSeq(b, 1, Len(a))
Priorities == 0..10

\* C1: the stored list has at most 8 events, is ordered by priority
\* non-increasing, keeps the emission order among events of equal priority,
\* and drops exactly the events ranked after position 8 of that ordering.
C1_StoredRanking ==
    LapProcessed =>
        /\ Len(StoredNow) = Min(8, Len(events))
        /\ \A i \in 1..(Len(StoredNow) - 1) :
              StoredNow[i].priority >= StoredNow[i + 1].priority
        /\ \A p \in Priorities :
              /\ IsPrefix(OfPriority(StoredNow, p), OfPriority(events, p))
              /\ OfPriority(StoredNow, p) # OfPriority(events, p) =>
                    /\ Len(StoredNow) = 8
                    /\ \A q \in Priorities : q < p => OfPriority(StoredNow, q) = <<>>
        /\ \A i, j \in 1..Len(StoredNow) :
              (StoredNow[i].type = "safety_car" /\ StoredNow[j].type = "fastest_lap")
                  => i < j

\* Witness of C1: more than 8 events were emitted, a safety-car event leads
\* the stored list before a fastest-lap event, and the cut falls between two
\* events of equal priority.
C1_Witness ==
    /\ LapProcessed
    /\ Len(events) > 8
    /\ StoredNow[1].type = "safety_car"
    /\ StoredNow[2].type = "fastest_lap"
    /\ \E p \in Priorities :
          /\ OfPriority(StoredNow, p) # <<>>
          /\ Len(OfPriority(StoredNow, p)) < Len(OfPriority(events, p))

\* Severity of what a race-control message or a coded status matches:
\* 3 safety car, 2 virtual safety car, 1 yellow, 0 nothing.
MessageSeverity(rc) ==
    IF IsScMessage(rc) THEN 3
    ELSE IF IsVscMessage(rc) THEN 2
    ELSE IF IsYellowFlag(rc) THEN 1 ELSE 0
CodeSeverity(code) ==
    IF code = "4" THEN 3
    ELSE IF code = "5" THEN 2
    ELSE IF code \in {"2", "3"} THEN 1 ELSE 0
LapSeverities ==
    {MessageSeverity(rc_events[i]) : i \in 1..Len(rc_events)}
      \cup {CodeSeverity(lap_group[i].track_status) : i \in 1..Len(lap_group)}
TopSeverity == CHOOSE s \in LapSeverities \cup {0} : \A o \in LapSeverities : o <= s

StatusTypes == {"safety_car", "vsc", "yellow"}
StatusOf(evs) == SelectSeq(evs, LAMBDA e : e.type \in StatusTypes)

\* C2: at most one track-status event per lap; it is the highest severity
\* matched by any message or coded status of the lap (safety_car 10 > vsc 9 >
\* yellow 8), and none is emitted when nothing matches.
C2_HighestStatusOnly ==
    LapProcessed =>
        LET st == StatusOf(events)
        IN  /\ Len(st) <= 1
            /\ TopSeverity = 0 <=> st = <<>>
            /\ TopSeverity = 3 => st[1].type = "safety_car" /\ st[1].priority = 10
            /\ TopSeverity = 2 => st[1].type = "vsc" /\ st[1].priority = 9
            /\ TopSeverity = 1 => st[1].type = "yellow" /\ st[1].priority = 8
            /\ StatusOf(StoredNow) = st

\* Witness of C2: a lap with a virtual-safety-car message and a yellow flag
\* whose records carry the safety-car code, reported as safety car.
C2_Witness ==
    /\ LapProcessed
    /\ \E i \in 1..Len(rc_events) : IsVscMessage(rc_events[i])
    /\ \E i \in 1..Len(rc_events) : IsYellowFlag(rc_events[i])
    /\ \E i \in 1..Len(lap_group) : lap_group[i].track_status = "4"
    /\ StatusOf(events) # <<>>
    /\ StatusOf(events)[1].type = "safety_car"

\* The running position of driver d in the lap processed last (None if the
\* lap has no record of d with a position).
PositionNow(d) ==
    LET own == SelectSeq(lap_group, LAMBDA l : l.driver = d /\ Truthy(l.position))
    IN  IF own = <<>> THEN None ELSE own[Len(own)].position

\* The position of driver d in the lap group processed before (None if none).
PositionBefore(d) ==
    IF DictHas(before_positions, d) THEN DictGet(before_positions, d) ELSE None

PositionChangesOf(d) ==
    SelectSeq(events, LAMBDA e : e.type = "position_change" /\ e.driver = d)

\* C3: a driver whose position differs by at least 2 from the position on the
\* previous lap gets exactly one position_change event (priority 4) among the
\* events emitted for the lap: marker up when the position number decreased,
\* down when it increased, the magnitude in the title, 'P' and the new
\* position as detail.  A change of 0 or 1 gives no such event.
C3_PositionChange ==
    LapProcessed =>
        \A d \in DriverIds :
            LET now    == PositionNow(d)
                before == PositionBefore(d)
                pcs    == PositionChangesOf(d)
            IN  IF now # None /\ before # None /\ Abs(before - now) >= 2
                THEN /\ Len(pcs) = 1
                     /\ pcs[1].priority = 4
                     /\ pcs[1].icon = (IF now < before THEN "UP TRIANGLE"
                                       ELSE "DOWN TRIANGLE")
                     /\ pcs[1].title = <<DriverAbbr(d), " ", pcs[1].icon, " ">>
                                          \o Digits(Abs(before - now)) \o <<" positions">>
                     /\ pcs[1].detail = <<"P">> \o Digits(now)
                ELSE pcs = <<>>

\* Witness of C3: a driver was P3 on the previous lap and is P1 now, and the
\* event says up, 2, P1; the other driver moved by one place and has no event.
C3_Witness ==
    /\ LapProcessed
    /\ \E d \in DriverIds :
          /\ PositionBefore(d) = 3
          /\ PositionNow(d) = 1
          /\ Len(PositionChangesOf(d)) = 1
          /\ PositionChangesOf(d)[1].icon = "UP TRIANGLE"
          /\ PositionChangesOf(d)[1].detail = <<"P", "1">>
          /\ \E o \in DriverIds \ {d} :
                /\ PositionBefore(o) = 1
                /\ PositionNow(o) = 2
                /\ PositionChangesOf(o) = <<>>

(***************************************************************************)
(* Properties of extract_pit_lane_path.                                    *)
(***************************************************************************)

PitReturned == ppc = "returned"

HasOwnPit == \E i \in 1..Len(pit_data) : pit_data[i].driver_number = PitDriver

\* The first pit record of the driver.
OwnPit == pit_data[CHOOSE i \in 1..Len(pit_data) :
                     /\ pit_data[i].driver_number = PitDriver
                     /\ \A h \in 1..(i - 1) : pit_data[h].driver_number # PitDriver]

\* The sample lies in the pit window: from 8 s before the pit date to 8 s
\* after the end of the lane transit (30 s when the record gives no duration).
Windowed(loc) ==
    LET lane == IF OwnPit.lane_duration = None THEN 300 ELSE OwnPit.lane_duration
    IN  OwnPit.date - 80 <= loc.date /\ loc.date <= OwnPit.date + lane + 80

\* The sample is farther than 150 from every outline point.
FarFromOutline(loc) ==
    \A i \in 1..Len(track_pts) :
        (loc.x - track_pts[i][1]) * (loc.x - track_pts[i][1])
          + (loc.y - track_pts[i][2]) * (loc.y - track_pts[i][2]) > 150 * 150

\* The sample is exactly 150 from its nearest outline point.
AtThreshold(loc) ==
    /\ ~FarFromOutline(loc)
    /\ \A i \in 1..Len(track_pts) :
          (loc.x - track_pts[i][1]) * (loc.x - track_pts[i][1])
            + (loc.y - track_pts[i][2]) * (loc.y - track_pts[i][2]) >= 150 * 150

WindowSeq == SelectSeq(pit_samples, Windowed)

\* C11: with a non-empty outline the returned path is exactly the windowed
\* samples farther than 150 from every outline point (a sample at exactly
\* 150 is excluded), in input order and with repeated samples kept.
C11_KeepsFarSamples ==
    (PitReturned /\ HasOwnPit /\ track_pts # <<>>) =>
        pit_lane_path[1] =
            AsPath(SelectSeq(pit_samples,
                             LAMBDA loc : Windowed(loc) /\ FarFromOutline(loc)))

\* Witness of C11: the same far sample is retained twice, and a windowed
\* sample at exactly 150 from the outline is excluded.
C11_Witness ==
    /\ PitReturned /\ HasOwnPit /\ track_pts # <<>>
    /\ Len(pit_lane_path[1]) = 2
    /\ pit_lane_path[1][1] = pit_lane_path[1][2]
    /\ Len(WindowSeq) = 3
    /\ \E i \in 1..3 : AtThreshold(WindowSeq[i])

\* C12: when the outline is empty, or when it is non-empty and no windowed
\* sample is farther than 150 from it, the raw window is returned; so the
\* path is non-empty whenever the window holds a sample.
C12_FallsBackToRawWindow ==
    (PitReturned /\ HasOwnPit) =>
        /\ (track_pts = <<>> \/ \A i \in 1..Len(WindowSeq) : ~FarFromOutline(WindowSeq[i]))
              => pit_lane_path[1] = AsPath(WindowSeq)
        /\ WindowSeq # <<>> => pit_lane_path[1] # <<>>

(***************************************************************************)
(* Properties of compute_track_rotation.                                   *)
(***************************************************************************)

RotationReturned == rotpc = "returned"

\* C13: an outline of fewer than 20 points, the empty one included, gives
\* rotation 0.0 and no outline point is read.
C13_ShortOutlineZero ==
    (RotationReturned /\ Len(rot_x) < 20) =>
        rotation = <<0>> /\ rot_reads = {}

\* Witness of C13: an outline of 19 points on a diagonal returned 0.0; the
\* same direction with 20 points returns a non-zero angle.
C13_Witness ==
    /\ RotationReturned
    /\ Len(rot_x) = 19
    /\ rot_x[6] # rot_x[1] /\ rot_y[6] # rot_y[1]
    /\ rotation = <<0>>

(***************************************************************************)
(* Properties of the server.                                               *)
(***************************************************************************)

Answered(h) == hresp[h] # Unset

\* C14: in every interleaving, a handler that read a status other than
\* 'ready' answers 503, a handler that read 'ready' answers 200 with the
\* artifacts of its route, and the status is never 'ready' while data is None.
C14_ReadyMeansPopulated ==
    /\ status = "ready" => data # Unset
    /\ \A h \in DOMAIN hresp :
          Answered(h) =>
              /\ hseen[h] # "ready" => hresp[h][1].code = 503
              /\ hseen[h] = "ready" =>
                    /\ hresp[h][1].code = 200
                    /\ hroute[h] = "data" =>
                          hresp[h][1].body = <<"session", "drivers", "track", "laps", "insights">>
                    /\ hroute[h] = "positions" => hresp[h][1].body = <<"positions">>

\* Witness of C14: one handler tested the status while the loader was still
\* loading and answered 503; another tested it right after the loader
\* published 'ready' (progress still 95) and answered 200.
C14_Witness ==
    /\ \E h \in DOMAIN hresp :
          Answered(h) /\ hseen[h] = "loading" /\ hresp[h][1].code = 503
    /\ \E h \in DOMAIN hresp :
          Answered(h) /\ hseen[h] = "ready" /\ hresp[h][1].code = 200
    /\ progress = 95

(***************************************************************************)
(* Properties of generate_static.main.                                     *)
(***************************************************************************)

RunEnded == outcome \in {"done", "aborted", "crashed"}

\* Every request of Steps 1, 2 and 5 has returned and Step 3 found a start.
AllFetched ==
    /\ {"sessions", "drivers", "laps", "stints", "pit", "position",
        "race_control", "weather"} \subseteq fetched
    /\ has_meeting_key => "meetings" \in fetched
    /\ has_lap1
    /\ loc_todo = 0
    /\ mv # "untried"

ScrubReturned == scpc = "returned"

NonFiniteFloat(node) == node.kind = "float" /\ node.v \in {"nan", "inf", "-inf"}

\* b is a with every non-finite float replaced by null and all else as it
\* was: same kinds, keys, lengths and order.
RECURSIVE ScrubbedFrom(_, _)
ScrubbedFrom(a, b) ==
    IF a.kind \in {"dict", "list"}
    THEN /\ b.kind = a.kind /\ b.key = a.key
         /\ Len(b.items) = Len(a.items)
         /\ \A i \in 1..Len(a.items) : ScrubbedFrom(a.items[i], b.items[i])
    ELSE IF NonFiniteFloat(a)
    THEN b.kind = "none" /\ b.key = a.key /\ b.items = <<>>
    ELSE b = a

\* Some node of the tree is a non-finite float.
RECURSIVE HasNonFinite(_)
HasNonFinite(a) ==
    \/ NonFiniteFloat(a)
    \/ \E i \in 1..Len(a.items) : HasNonFinite(a.items[i])

\* C16: _scrub replaces every NaN or infinite float at any depth by null,
\* leaves every other value and the structure unchanged, and the serialized
\* text holds no NaN, Infinity or -Infinity token.
C16_ScrubRemovesNonFinite ==
    ScrubReturned =>
        /\ ScrubbedFrom(obj, scrubbed[1])
        /\ ~HasNonFinite(scrubbed[1])
        /\ \A i \in 1..Len(serialized[1]) :
              serialized[1][i] \notin {"NaN", "Infinity", "-Infinity"}

\* Witness of C16: a dict holding a list holding an infinity, next to the
\* string 'NaN': the infinity became null two levels down, the string stayed.
C16_Witness ==
    /\ ScrubReturned
    /\ obj.kind = "dict"
    /\ Len(obj.items) = 2
    /\ obj.items[1].kind = "list"
    /\ Len(obj.items[1].items) = 2
    /\ obj.items[1].items[1].v = "-inf"
    /\ obj.items[1].items[2].v = "1.5"
    /\ obj.items[2].kind = "str"
    /\ serialized[1] = <<"{", "\"a\"", ":", "[", "null", ",", "1.5", "]", ",",
                          "\"b\"", ":", "\"NaN\"", "}">>

(***************************************************************************)
(* Properties of get_track_status_for_lap.                                 *)
(***************************************************************************)

StatusReturned == tspc = "returned"

\* The messages of the lap asked for.
LapMessages == {all_rc[i] : i \in {h \in 1..Len(all_rc) : all_rc[h].lap_number = status_lap}}

\* C17: the code is '4' if any message of the lap is a (non-virtual)
\* safety-car message, else '5' if any is a virtual-safety-car message, else
\* '3' or '2' if any carries a double-yellow or yellow flag, else '1',
\* whatever the order of the messages.
C17_HighestSeverityCode ==
    StatusReturned =>
        IF \E rc \in LapMessages : IsScMessage(rc) THEN lap_status = <<"4">>
        ELSE IF \E rc \in LapMessages : IsVscMessage(rc) THEN lap_status = <<"5">>
        ELSE IF \E rc \in LapMessages : IsYellowFlag(rc) THEN lap_status[1] \in {"2", "3"}
        ELSE lap_status = <<"1">>

(***************************************************************************)
(* Further properties of compute_insights.                                 *)
(***************************************************************************)

SectorKeys == {<<"S1", "sector1">>, <<"S2", "sector2">>, <<"S3", "sector3">>}

\* The records of the processed lap that have the sector time recorded.
WithSector(key) ==
    {lap_group[i] : i \in {h \in 1..Len(lap_group) : SectorValue(lap_group[h], key) # None}}

BestSectorOf(sector) ==
    SelectSeq(events, LAMBDA ev : ev.type = "best_sector" /\ ev.title[3] = sector)

\* C18: for each sector, when some record of the lap has that sector time,
\* exactly one best_sector event (priority 3) is emitted and names a driver
\* with the minimum time, whether or not any record has a lap_time.
C18_BestSectorAlways ==
    LapProcessed =>
        \A sk \in SectorKeys :
            WithSector(sk[2]) # {} =>
                /\ Len(BestSectorOf(sk[1])) = 1
                /\ BestSectorOf(sk[1])[1].priority = 3
                /\ \E l \in WithSector(sk[2]) :
                      /\ l.driver = BestSectorOf(sk[1])[1].driver
                      /\ \A o \in WithSector(sk[2]) :
                            SectorValue(l, sk[2]) <= SectorValue(o, sk[2])


(***************************************************************************)
(* Properties of the lap assembly.                                         *)
(***************************************************************************)

AssembleDone == apc = "done"

\* The stint the driver of a lap record runs on the lap after it.
StintAfter(l) ==
    FirstStintHolding(SelectSeq(all_stints, LAMBDA st : str(st.driver_number) = l.driver),
                      l.lap + 1)
DestinationCompound(l) ==
    IF StintAfter(l) # <<>> THEN StintAfter(l)[1].compound ELSE "UNKNOWN"

PitStopsOf(l) ==
    SelectSeq(DictGet(run_insights[1], Digits(l.lap)),
              LAMBDA e : e.type = "pit_stop" /\ e.driver = l.driver)

\* C19: every lap record with a pit-in time has exactly one pit_stop event of
\* priority 5 for its driver, and the detail of that event names the compound
\* of the stint the driver runs after the stop.
C19_PitStopNamesDestination ==
    AssembleDone =>
        \A i \in 1..Len(laps_list) :
            laps_list[i].pit_in # None =>
                /\ Len(PitStopsOf(laps_list[i])) = 1
                /\ PitStopsOf(laps_list[i])[1].priority = 5
                /\ PitStopsOf(laps_list[i])[1].detail
                       = <<"-> ", DestinationCompound(laps_list[i])>>


(***************************************************************************)
(* The bracketing samples of the resampler.                                *)
(***************************************************************************)

IsSortedTrace == \A a, b \in 1..Len(ts) : a < b => ts[a] <= ts[b]

\* The index j (1-based) the k-th iteration of the outer loop interpolates at.
RECURSIVE IndexAt(_)
IndexAt(k) == AdvanceJ(ts, IF k = 0 THEN 1 ELSE IndexAt(k - 1), ts[1], k)

Between(v, a, b) == Min(a, b) <= v /\ v <= (IF a >= b THEN a ELSE b)

\* C20: in a timestamp-sorted trace every grid point after the first lies
\* between the two adjacent raw samples it is interpolated from, so the
\* fraction is within [0,1] and the emitted coordinates lie between the
\* coordinates of those two samples; and for any trace, sorted or not, two
\* bracketing samples of equal timestamp give fraction 0, the coordinates of
\* the earlier one.
C20_BracketedInterpolation ==
    Resampled =>
        \A n \in 2..Len(Out.t) :
            LET j  == IndexAt(n - 1)
                t  == Out.t[n]
                t0 == ts[j - 1]
                t1 == ts[j]
            IN  /\ j >= 2
                /\ IsSortedTrace =>
                       /\ t0 <= t /\ t <= t1
                       /\ 0 <= t - t0 /\ t - t0 <= t1 - t0
                       /\ Between(Out.x[n], xs[j - 1], xs[j])
                       /\ Between(Out.y[n], ys[j - 1], ys[j])
                /\ t1 = t0 => Out.x[n] = xs[j - 1] /\ Out.y[n] = ys[j - 1]

\* A sorted trace of three samples resampled with a grid point strictly
\* inside the bracket of the second and third sample, where x moves.
C20_Witness ==
    /\ Resampled
    /\ IsSortedTrace
    /\ Len(ts) = 3
    /\ \E n \in 2..Len(Out.t) :
          /\ IndexAt(n - 1) = 3
          /\ ts[2] < Out.t[n] /\ Out.t[n] < ts[3]
          /\ xs[2] # xs[3]
          /\ Out.x[n] # xs[2] /\ Out.x[n] # xs[3]


(***************************************************************************)
(* Race-control messages against the coded track status.                   *)
(***************************************************************************)

MessageSeverities == {MessageSeverity(rc_events[i]) : i \in 1..Len(rc_events)}
CodeSeverities    == {CodeSeverity(lap_group[i].track_status) : i \in 1..Len(lap_group)}
TopOf(S) == CHOOSE s \in S \cup {0} : \A o \in S : o <= s

StatusTypeOf(severity) ==
    IF severity = 3 THEN "safety_car" ELSE IF severity = 2 THEN "vsc" ELSE "yellow"

FastestSoFar(l) ==
    /\ l.lap_time # None
    /\ \A h \in 1..Len(laps_list) :
          (/\ laps_list[h].driver = l.driver
           /\ laps_list[h].lap < l.lap
           /\ laps_list[h].lap_time # None) => l.lap_time < laps_list[h].lap_time

PersonalBestsOf(l) ==
    SelectSeq(DictGet(run_insights[1], Digits(l.lap)),
              LAMBDA e : e.type = "personal_best" /\ e.driver = l.driver)

\* C22: a lap record is flagged is_pb exactly when its lap time is the
\* driver's fastest up to that lap number, in whatever order the source
\* gave the records, and exactly the flagged records have a personal_best
\* event of priority 6.
C22_PersonalBestByLapNumber ==
    AssembleDone =>
        \A i \in 1..Len(laps_list) :
            /\ laps_list[i].is_pb <=> FastestSoFar(laps_list[i])
            /\ IF laps_list[i].is_pb
               THEN /\ Len(PersonalBestsOf(laps_list[i])) = 1
                    /\ PersonalBestsOf(laps_list[i])[1].priority = 6
               ELSE PersonalBestsOf(laps_list[i]) = <<>>


(***************************************************************************)
(* The position state carried between laps.                                *)
(***************************************************************************)

\* The positions recorded by the lap group processed just before the last
\* one: the immediately preceding lap number present in the data.
PrecedingPositions ==
    IF Len(position_log) >= 2 THEN position_log[Len(position_log) - 1].positions
    ELSE <<>>

\* Driver d had a position at least two places from p on some lap processed
\* before the preceding one.
HadFarPositionEarlier(d, p) ==
    \E h \in 1..(Len(position_log) - 2) :
        /\ DictHas(position_log[h].positions, d)
        /\ Abs(DictGet(position_log[h].positions, d) - p) >= 2

\* C23: after every processed lap the carried positions are exactly those of
\* that lap group; the position_change events of a lap are computed against
\* the positions of the immediately preceding lap group only, so a driver
\* without a position there has no event, whatever positions earlier laps
\* recorded.
C23_PositionsReplacedWholesale ==
    (LapProcessed /\ position_log # <<>>) =>
        /\ prev_positions = CurPositions(lap_group)
        /\ before_positions = PrecedingPositions
        /\ \A d \in DriverIds :
              IF /\ PositionNow(d) # None
                 /\ DictHas(PrecedingPositions, d)
                 /\ Abs(DictGet(PrecedingPositions, d) - PositionNow(d)) >= 2
              THEN Len(PositionChangesOf(d)) = 1
              ELSE PositionChangesOf(d) = <<>>

\* Witness of C23: on the third lap a driver has a position two or more
\* places from the one of the first lap, had none on the second lap, and
\* gets no position_change event.
C23_Witness ==
    /\ Len(position_log) = 3
    /\ \E d \in DriverIds :
          /\ PositionNow(d) # None
          /\ ~DictHas(PrecedingPositions, d)
          /\ HadFarPositionEarlier(d, PositionNow(d))
          /\ PositionChangesOf(d) = <<>>


(***************************************************************************)
(* The run state of the server.                                            *)
(***************************************************************************)

StatusMoves == {<<"idle", "loading">>, <<"loading", "ready">>, <<"loading", "error">>}

\* What STATE shows once the loader failed: no data, and the progress the
\* stage that raised had set when it began.
FailedState == data = Unset /\ progress = StageProgress[lstage]

\* C24: status only moves idle -> loading -> ready or error, both terminal;
\* progress never decreases and stays within 0..100; progress is 100 exactly
\* when status is ready; and after a failure status is error, progress is
\* what the last completed stage left and data is unset.
C24_RunState ==
    /\ [](/\ progress \in 0..100
          /\ progress = 100 <=> status = "ready"
          /\ status = "error" => FailedState)
    /\ [][/\ progress' >= progress
          /\ status' # status => <<status, status'>> \in StatusMoves]_vars

====
